---- MODULE Spec2Model ----
(***************************************************************************)
(* A model of hermes' RuntimeModule (lib/VM/RuntimeModule.cpp): the object *)
(* that binds one bytecode unit to interned SymbolIDs, to CodeBlocks       *)
(* materialised on demand (directly, or through a lazy child module) and   *)
(* to a cache of literal hidden classes.                                   *)
(*                                                                         *)
(* Every operation of the class is a pure operator from a runtime state S  *)
(* (a record of the variables below) to the state after it, with the       *)
(* value it returns in the field ret.  The actions apply these operators   *)
(* to the current state, and the properties apply them to every reachable  *)
(* state.  C++ indices are 0-based: At(s, i) reads element i of a vector.  *)
(***************************************************************************)
EXTENDS Integers, Sequences, FiniteSets, TLC

VARIABLES
  runtimeModules,              \* Runtime's list of registered RuntimeModules
  domainOf,                    \* module -> the Domain it registered with
  bcProvider,                  \* module -> bcProvider_
  flags,                       \* module -> flags_.persistent
  functionMap,                 \* module -> functionMap_
  stringIDMap,                 \* module -> stringIDMap_
  objectLiteralHiddenClasses,  \* module -> objectLiteralHiddenClasses_
  templateMap,                 \* module -> templateMap_
  cjsModules,                  \* modules whose CJS table their Domain imported
  codeBlocks,                  \* the CodeBlocks ever allocated, by identity
  identifierTable,             \* Runtime's IdentifierTable
  lazyParent,                  \* module -> <<parent, index>> of createLazyModule
  phase,                       \* "running", "shutdown"
  prepared,                    \* modules prepareForRuntimeShutdown has run on
  faults                       \* assertion failures and undefined behaviour met

vars == <<runtimeModules, domainOf, bcProvider, flags, functionMap, stringIDMap,
          objectLiteralHiddenClasses, templateMap, cjsModules, codeBlocks,
          identifierTable, lazyParent, phase, prepared, faults>>

-----------------------------------------------------------------------------
(* Bounds of the model. *)

\* RuntimeModules ever created in a run of Spec: top-level ones and lazy children.
MaxModules == 3
\* RuntimeModules created by RuntimeModule::create in a run of Spec.
MaxTopLevel == 1
\* RuntimeModules created in a run of SpecLoad.
MaxLoads == 3

-----------------------------------------------------------------------------
(* Vectors and 32-bit arithmetic. *)

At(s, i) == s[i + 1]

SetAt(s, i, v) == [s EXCEPT ![i + 1] = v]

Indices(s) == 0 .. (Len(s) - 1)

\* std::vector::resize(n, v)
Resize(s, n, v) == [k \in 1 .. n |-> IF k <= Len(s) THEN s[k] ELSE v]

\* A uint32_t is a pair <<high 16 bits, low 16 bits>>.
Half == 65536

U32(n) == <<n \div Half, n % Half>>

\* The value as an index; any value of 2^31 or more indexes far out of bounds.
OutOfRange == 2147483647
ToIndex(w) == IF w[1] < 32768 THEN w[1] * Half + w[2] ELSE OutOfRange

RECURSIVE BitXor(_, _)
BitXor(a, b) ==
  IF a = 0 THEN b
  ELSE IF b = 0 THEN a
  ELSE ((a + b) % 2) + 2 * BitXor(a \div 2, b \div 2)

RECURSIVE BitOr(_, _)
BitOr(a, b) ==
  IF a = 0 THEN b
  ELSE IF b = 0 THEN a
  ELSE (IF a % 2 = 1 \/ b % 2 = 1 THEN 1 ELSE 0) + 2 * BitOr(a \div 2, b \div 2)

Add32(v, w) ==
  LET lo == v[2] + w[2]
  IN  <<(v[1] + w[1] + lo \div Half) % Half, lo % Half>>

Shl10(w) == <<(w[1] * 1024 + (w[2] * 1024) \div Half) % Half, (w[2] * 1024) % Half>>

Shr6(w) == <<w[1] \div 64, w[2] \div 64 + (w[1] % 64) * 1024>>

Xor32(v, w) == <<BitXor(v[1], w[1]), BitXor(v[2], w[2])>>

\* One step of the Jenkins one-at-a-time hash on uint32_t:
\* hash += c; hash += hash << 10; hash ^= hash >> 6.
updateJenkinsHash(hash, c) ==
  LET h1 == Add32(hash, U32(c))
      h2 == Add32(h1, Shl10(h1))
  IN  Xor32(h2, Shr6(h2))

RECURSIVE hashFrom(_, _, _)
hashFrom(str, k, hash) ==
  IF k > Len(str) THEN hash ELSE hashFrom(str, k + 1, updateJenkinsHash(hash, str[k]))

\* hermes::hashString: the hash of a string's code units, starting from 0.
hashString(str) == hashFrom(str, 1, U32(0))

-----------------------------------------------------------------------------
(* SymbolIDs.  A valid SymbolID is an index of the identifier table; the   *)
(* table is created holding the predefined strings, so the first           *)
(* NumPredefined ids are the predefined ones.                              *)

\* SymbolID::empty(), and the default-constructed SymbolID: both invalid.
EmptyID == 536870911
InvalidID == 536870912

isValid(id) == id < EmptyID

NumPredefined == 2

isPredefined(id) == id < NumPredefined

\* SymbolID::unsafeCreate
unsafeCreate(rawSymbolID) == ToIndex(rawSymbolID)

\* Strings are sequences of code units.
StrEmpty == <<>>
StrA == <<97>>
StrB == <<98>>
StrF == <<102>>
StrG == <<103>>
StrPi == <<960>>
StrLength == <<108>>
StrProto == <<112>>

PredefinedStrings == <<StrLength, StrProto>>

InitialIdentifierTable ==
  [k \in 1 .. NumPredefined |->
     [str |-> PredefinedStrings[k], hash |-> hashString(PredefinedStrings[k]),
      lazy |-> TRUE]]

\* The table's lookup: the id of the entry with this hash and content, or
\* InvalidID.
lookupString(table, str, hash) ==
  LET Pick(hits) == IF hits = {} THEN InvalidID ELSE (CHOOSE k \in hits : TRUE) - 1
  IN  Pick({k \in 1 .. Len(table) : table[k].hash = hash /\ table[k].str = str})

\* IdentifierTable::getSymbolHandle and registerLazyIdentifier: the entry's
\* id when the table holds one, and else the id of a new entry.
internIdentifier(table, str, hash, lazy) ==
  LET Intern(found) ==
        IF found # InvalidID
        THEN [table |-> table, id |-> found]
        ELSE [table |-> Append(table, [str |-> str, hash |-> hash, lazy |-> lazy]),
              id |-> Len(table)]
  IN  Intern(lookupString(table, str, hash))

-----------------------------------------------------------------------------
(* Bytecode providers.  A provider is read-only; a RuntimeModule holds the *)
(* name of one.  PA is a unit of three functions whose function 1 is lazy; *)
(* PA1 is what compiling that function yields, PA12 what compiling PA1's   *)
(* lazy function 2 yields.  PB is a unit built by hand with an empty       *)
(* string table.  PC shares identifiers with PA; its function 0 is lazy.   *)

KString == "String"
KIdentifier == "Identifier"
KPredefined == "Predefined"

Ascii(s) == [str |-> s, isUTF16 |-> FALSE]
Utf16(s) == [str |-> s, isUTF16 |-> TRUE]
Run(k, n) == [kind |-> k, count |-> n]

ProviderNames == {"PA", "PA1", "PA12", "PB", "PC", "PC0"}

TopLevelProviders == {"PA", "PB", "PC"}

\* The units of the model, by name.
Providers ==
  [name \in ProviderNames |->
  CASE name = "PA" ->
         [functionCount |-> 3, lazyFunctions |-> {1},
          functionName |-> <<0, 0, 1>>,
          compiled |-> <<"", "PA1", "">>,
          globalFunctionIndex |-> 0,
          stringTable |-> <<Ascii(StrF), Ascii(StrG), Ascii(StrA), Ascii(StrProto)>>,
          stringKinds |-> <<Run(KString, 2), Run(KIdentifier, 1), Run(KPredefined, 1)>>,
          identifierTranslations |-> <<hashString(StrA), U32(1)>>]
    [] name = "PA1" ->
         [functionCount |-> 3, lazyFunctions |-> {2},
          functionName |-> <<0, 0, 1>>,
          compiled |-> <<"", "", "PA12">>,
          globalFunctionIndex |-> 1,
          stringTable |-> <<Ascii(StrG), Ascii(StrB), Utf16(StrPi)>>,
          stringKinds |-> <<Run(KIdentifier, 3)>>,
          identifierTranslations |->
            <<hashString(StrG), hashString(StrB), hashString(StrPi)>>]
    [] name = "PA12" ->
         [functionCount |-> 3, lazyFunctions |-> {},
          functionName |-> <<0, 0, 0>>,
          compiled |-> <<"", "", "">>,
          globalFunctionIndex |-> 2,
          stringTable |-> <<Ascii(StrB)>>,
          stringKinds |-> <<Run(KIdentifier, 1)>>,
          identifierTranslations |-> <<hashString(StrB)>>]
    [] name = "PB" ->
         [functionCount |-> 1, lazyFunctions |-> {},
          functionName |-> <<0>>,
          compiled |-> <<"">>,
          globalFunctionIndex |-> 0,
          stringTable |-> <<>>,
          stringKinds |-> <<>>,
          identifierTranslations |-> <<>>]
    [] name = "PC" ->
         [functionCount |-> 2, lazyFunctions |-> {0},
          functionName |-> <<2, 1>>,
          compiled |-> <<"PC0", "">>,
          globalFunctionIndex |-> 0,
          stringTable |-> <<Ascii(StrLength), Ascii(StrA), Utf16(StrPi), Ascii(StrB)>>,
          stringKinds |-> <<Run(KPredefined, 1), Run(KIdentifier, 2), Run(KString, 1)>>,
          identifierTranslations |-> <<U32(0), hashString(StrA), U32(5)>>]
    [] name = "PC0" ->
         [functionCount |-> 1, lazyFunctions |-> {},
          functionName |-> <<0>>,
          compiled |-> <<"">>,
          globalFunctionIndex |-> 0,
          stringTable |-> <<Utf16(StrPi)>>,
          stringKinds |-> <<Run(KIdentifier, 1)>>,
          identifierTranslations |-> <<hashString(StrPi)>>]]

Provider(name) == Providers[name]

\* bcProvider_: nullptr, a provider of a whole unit, or the BCProviderLazy
\* of one function of its parent's unit.
NoProvider == [kind |-> "none", name |-> "", fn |-> 0]
FromSrc(name) == [kind |-> "src", name |-> name, fn |-> 0]
BCProviderLazy(name, fn) == [kind |-> "lazy", name |-> name, fn |-> fn]

getStringCount(bc) == IF bc.kind = "src" THEN Len(Provider(bc.name).stringTable) ELSE 0
getStringKinds(bc) == IF bc.kind = "src" THEN Provider(bc.name).stringKinds ELSE <<>>
getIdentifierTranslations(bc) ==
  IF bc.kind = "src" THEN Provider(bc.name).identifierTranslations ELSE <<>>
getStringTableEntry(bc, strID) == At(Provider(bc.name).stringTable, strID)
getFunctionCount(bc) == IF bc.kind = "src" THEN Provider(bc.name).functionCount ELSE 1
getGlobalFunctionIndex(bc) ==
  IF bc.kind = "src" THEN Provider(bc.name).globalFunctionIndex ELSE bc.fn
isFunctionLazy(bc, index) ==
  IF bc.kind = "src" THEN index \in Provider(bc.name).lazyFunctions ELSE TRUE

-----------------------------------------------------------------------------
(* The runtime state as a value, and the CodeBlocks. *)

\* The field calls is not part of the state: it lists, in order, the calls an
\* operation has made to the Runtime and to the Domain since it started.
Cur ==
  [runtimeModules |-> runtimeModules, domainOf |-> domainOf,
   bcProvider |-> bcProvider, flags |-> flags, functionMap |-> functionMap,
   stringIDMap |-> stringIDMap,
   objectLiteralHiddenClasses |-> objectLiteralHiddenClasses,
   templateMap |-> templateMap, cjsModules |-> cjsModules,
   codeBlocks |-> codeBlocks, identifierTable |-> identifierTable,
   lazyParent |-> lazyParent, phase |-> phase, prepared |-> prepared,
   faults |-> faults, calls |-> <<>>]

Returns(S, v) == [st |-> S, ret |-> v]

\* Every RuntimeModule ever constructed; the registered ones are the live ones.
Modules(S) == DOMAIN S.functionMap

\* A failed assert, or undefined behaviour: recorded, and execution goes on
\* as a build without assertions does.
Fault(S, what) == [S EXCEPT !.faults = @ \cup {what}]

Check(S, cond, what) == IF cond THEN S ELSE Fault(S, what)

nullptr == <<>>

NoParent == <<>>

\* CodeBlock::createCodeBlock(runtimeModule, header, bytecode, functionID): a
\* new CodeBlock, named by its creator, its function and how many the creator
\* made for that function before.
createCodeBlock(S, runtimeModule, functionID) ==
  LET gen == Cardinality({b \in DOMAIN S.codeBlocks :
                            b[1] = runtimeModule /\ b[2] = functionID})
      block == <<runtimeModule, functionID, gen>>
  IN  Returns(
        [S EXCEPT !.codeBlocks =
           (block :> [runtimeModule |-> runtimeModule, functionID |-> functionID,
                      deletes |-> 0]) @@ @],
        block)

\* block->getRuntimeModule() == m.  Reading a deleted CodeBlock is undefined:
\* the comparison then yields whatever the freed memory holds (garbage).
ownedBy(S, block, m, garbage) ==
  IF S.codeBlocks[block].deletes > 0 THEN garbage
  ELSE S.codeBlocks[block].runtimeModule = m

readsDeleted(S, block) == S.codeBlocks[block].deletes > 0

\* delete block
deleteBlock(S, block) ==
  [Check(S, S.codeBlocks[block].deletes = 0, "double delete")
     EXCEPT !.codeBlocks[block].deletes = @ + 1]

-----------------------------------------------------------------------------
(* Construction and interning. *)

\* A call of a member function of the Runtime or of a Domain, with what the
\* callee can see of module m when it is called.
Call(name, S, m) ==
  [call |-> name, module |-> m,
   registered |-> m \in S.runtimeModules,
   inDomain |-> m \in DOMAIN S.domainOf,
   stringIDMap |-> IF m \in DOMAIN S.stringIDMap THEN S.stringIDMap[m] ELSE <<>>,
   functionMap |-> IF m \in DOMAIN S.functionMap THEN S.functionMap[m] ELSE <<>>]

\* RuntimeModule::RuntimeModule: registers with the runtime and the domain.
RuntimeModuleCtor(S, domain, persistent) ==
  LET m == Cardinality(Modules(S)) + 1
  IN  Returns(
        [S EXCEPT !.runtimeModules = @ \cup {m},
                  !.domainOf = (m :> domain) @@ @,
                  !.bcProvider = (m :> NoProvider) @@ @,
                  !.flags = (m :> persistent) @@ @,
                  !.functionMap = (m :> <<>>) @@ @,
                  !.stringIDMap = (m :> <<>>) @@ @,
                  !.objectLiteralHiddenClasses = (m :> <<>>) @@ @,
                  !.templateMap = (m :> <<>>) @@ @,
                  !.lazyParent = (m :> NoParent) @@ @,
                  !.calls = @ \o <<Call("Runtime::addRuntimeModule", S, m),
                                   Call("Domain::addRuntimeModule",
                                        [S EXCEPT !.runtimeModules = @ \cup {m}], m)>>],
        m)

\* RuntimeModule::mapStringMayAllocate(str, stringID, hash)
mapStringMayAllocate(S, m, str, stringID, hash) ==
  LET Store(r) ==
        IF stringID < Len(S.stringIDMap[m])
        THEN Returns([S EXCEPT !.identifierTable = r.table,
                               !.stringIDMap[m] = SetAt(@, stringID, r.id)],
                     r.id)
        ELSE Returns(Fault([S EXCEPT !.identifierTable = r.table],
                           "stringIDMap_ index out of bounds"),
                     r.id)
  IN  Store(internIdentifier(S.identifierTable, str, hash, S.flags[m]))

\* The overload mapStringMayAllocate(str, stringID): hashes the string itself.
mapStringMayAllocate2(S, m, str, stringID) ==
  mapStringMayAllocate(S, m, str, stringID, hashString(str))

\* An OptValue<uint32_t> without a value.
NoHash == <<>>

\* createSymbolFromStringIDMayAllocate with a slip: the code units are read
\* from the start of the string storage, not from the entry's offset.
createSymbolFromStringIDMayAllocate_offsetZero(S, m, stringID, entry, mhash) ==
  LET str == getStringTableEntry(S.bcProvider[m], 0).str
      hash == IF mhash # NoHash THEN mhash ELSE hashString(str)
  IN  mapStringMayAllocate(S, m, str, stringID, hash)

\* RuntimeModule::createSymbolFromStringIDMayAllocate: the UTF16 and the ASCII
\* branch read the entry's code units and do the same with them.
createSymbolFromStringIDMayAllocate(S, m, stringID, entry, mhash) ==
  LET str == entry.str
      hash == IF mhash # NoHash THEN mhash ELSE hashString(str)
  IN  mapStringMayAllocate(S, m, str, stringID, hash)

\* mapPredefined with a slip: the entry is interned like an identifier, with
\* the raw translation value as its hash.
mapPredefined_interned(S, m, stringID, rawSymbolID) ==
  mapStringMayAllocate(S, m, getStringTableEntry(S.bcProvider[m], stringID).str,
                       stringID, rawSymbolID)

\* RuntimeModule::mapPredefined
mapPredefined(S, m, stringID, rawSymbolID) ==
  LET id == unsafeCreate(rawSymbolID)
  IN  Returns([Check(S, isPredefined(id), "assert Predefined::isPredefined(id)")
                 EXCEPT !.stringIDMap[m] = SetAt(@, stringID, id)],
              id)

\* importStringIDMapMayAllocate's loop with a slip: the entries of a String
\* run are interned too, with a hash computed from their content.
RECURSIVE importRun_stringsInterned(_, _, _, _, _, _)
importRun_stringsInterned(S, m, kind, left, strID, trnID) ==
  LET translations == getIdentifierTranslations(S.bcProvider[m])
  IN  IF left = 0 THEN [st |-> S, strID |-> strID, trnID |-> trnID]
      ELSE IF kind = KString
      THEN importRun_stringsInterned(
             createSymbolFromStringIDMayAllocate(
               S, m, strID, getStringTableEntry(S.bcProvider[m], strID), NoHash).st,
             m, kind, left - 1, strID + 1, trnID)
      ELSE IF kind = KIdentifier
      THEN importRun_stringsInterned(
             createSymbolFromStringIDMayAllocate(
               S, m, strID, getStringTableEntry(S.bcProvider[m], strID),
               At(translations, trnID)).st,
             m, kind, left - 1, strID + 1, trnID + 1)
      ELSE importRun_stringsInterned(
             mapPredefined(S, m, strID, At(translations, trnID)).st,
             m, kind, left - 1, strID + 1, trnID + 1)

\* One run of the kind table: count entries from strID, trnID on.
RECURSIVE importRun(_, _, _, _, _, _)
importRun(S, m, kind, left, strID, trnID) ==
  LET translations == getIdentifierTranslations(S.bcProvider[m])
  IN  IF left = 0 THEN [st |-> S, strID |-> strID, trnID |-> trnID]
      ELSE IF kind = KString THEN [st |-> S, strID |-> strID + left, trnID |-> trnID]
      ELSE IF kind = KIdentifier
      THEN importRun(
             createSymbolFromStringIDMayAllocate(
               S, m, strID, getStringTableEntry(S.bcProvider[m], strID),
               At(translations, trnID)).st,
             m, kind, left - 1, strID + 1, trnID + 1)
      ELSE importRun(mapPredefined(S, m, strID, At(translations, trnID)).st,
                     m, kind, left - 1, strID + 1, trnID + 1)

RECURSIVE importKinds(_, _, _, _, _)
importKinds(S, m, k, strID, trnID) ==
  LET kinds == getStringKinds(S.bcProvider[m])
      Rest(r) == importKinds(r.st, m, k + 1, r.strID, r.trnID)
  IN  IF k > Len(kinds) THEN [st |-> S, strID |-> strID, trnID |-> trnID]
      ELSE Rest(importRun(S, m, kinds[k].kind, kinds[k].count, strID, trnID))

\* importStringIDMapMayAllocate with a slip: nothing is added for an empty
\* string table.
importStringIDMapMayAllocate_noEmptyEntry(S, m) ==
  LET bc == S.bcProvider[m]
      strTableSize == getStringCount(bc)
      translations == getIdentifierTranslations(bc)
      Cleared == [Check(S, bc.kind # "none", "assert bcProvider_")
                    EXCEPT !.stringIDMap[m] = [k \in 1 .. strTableSize |-> EmptyID]]
      AfterKinds(r) ==
        Check(Check(r.st, r.strID = strTableSize, "assert strID == strTableSize"),
              r.trnID = Len(translations), "assert trnID == translations.size()")
  IN  AfterKinds(importKinds(
        Check(Cleared, Len(translations) <= strTableSize,
              "assert translations.size() <= strTableSize"),
        m, 1, 0, 0))

\* RuntimeModule::importStringIDMapMayAllocate
importStringIDMapMayAllocate(S, m) ==
  LET bc == S.bcProvider[m]
      strTableSize == getStringCount(bc)
      translations == getIdentifierTranslations(bc)
      Cleared == [Check(S, bc.kind # "none", "assert bcProvider_")
                    EXCEPT !.stringIDMap[m] = [k \in 1 .. strTableSize |-> EmptyID]]
      AddEmpty(S3) ==
        IF strTableSize = 0
        THEN mapStringMayAllocate2(
               [S3 EXCEPT !.stringIDMap[m] = Append(@, InvalidID)],
               m, StrEmpty, ToIndex(hashString(StrEmpty))).st
        ELSE S3
      AfterKinds(r) ==
        AddEmpty(Check(Check(r.st, r.strID = strTableSize, "assert strID == strTableSize"),
                       r.trnID = Len(translations), "assert trnID == translations.size()"))
  IN  AfterKinds(importKinds(
        Check(Cleared, Len(translations) <= strTableSize,
              "assert translations.size() <= strTableSize"),
        m, 1, 0, 0))

\* RuntimeModule::initializeFunctionMap
initializeFunctionMap(S, m) ==
  LET bc == S.bcProvider[m]
  IN  [Check(Check(S, bc.kind # "none", "assert bcProvider_"),
             getFunctionCount(bc) >= Len(S.functionMap[m]),
             "assert getFunctionCount() >= functionMap_.size()")
         EXCEPT !.functionMap[m] = Resize(@, getFunctionCount(bc), nullptr)]

\* RuntimeModule::initializeWithoutCJSModulesMayAllocate
initializeWithoutCJSModulesMayAllocate(S, m, bytecode) ==
  initializeFunctionMap(
    importStringIDMapMayAllocate(
      [Check(S, S.bcProvider[m].kind = "none", "assert !bcProvider_")
         EXCEPT !.bcProvider[m] = bytecode],
      m),
    m)

RETURNED == "RETURNED"
EXCEPTION == "EXCEPTION"

\* RuntimeModule::importCJSModuleTable.  Domain::importCJSModuleTable is the
\* domain's; cjs is the status it returns, and on success the domain holds
\* the module's table.
importCJSModuleTable(S, m, cjs) ==
  Returns([S EXCEPT !.calls = Append(@, Call("Domain::importCJSModuleTable", S, m)),
                    !.cjsModules = IF cjs = RETURNED THEN @ \cup {m} ELSE @],
          cjs)

\* initializeMayAllocate with a slip: the CJS module table is imported before
\* the strings are interned and the function map is sized.
initializeMayAllocate_importFirst(S, m, bytecode, cjs) ==
  LET Imported(r) ==
        Returns(initializeWithoutCJSModulesMayAllocate(r.st, m, bytecode),
                IF r.ret = EXCEPTION THEN EXCEPTION ELSE RETURNED)
  IN  Imported(importCJSModuleTable(S, m, cjs))

\* RuntimeModule::initializeMayAllocate
initializeMayAllocate(S, m, bytecode, cjs) ==
  LET Imported(r) == Returns(r.st, IF r.ret = EXCEPTION THEN EXCEPTION ELSE RETURNED)
  IN  Imported(importCJSModuleTable(
        initializeWithoutCJSModulesMayAllocate(S, m, bytecode), m, cjs))

\* create with a slip: a module whose CJS import fails is taken back, as if
\* it had been deleted: it leaves the runtime's list and gives up its vectors.
create_rollback(S, domain, bytecode, persistent, cjs) ==
  LET Undone(S1, m) ==
        [S1 EXCEPT !.runtimeModules = @ \ {m}, !.functionMap[m] = <<>>,
                   !.stringIDMap[m] = <<>>, !.bcProvider[m] = NoProvider]
      Initialized(result, r) ==
        IF r.ret = EXCEPTION
        THEN Returns(Undone(r.st, result), EXCEPTION)
        ELSE Returns(r.st, result)
      Constructed(c) ==
        IF bytecode.kind # "none"
        THEN Initialized(c.ret, initializeMayAllocate(c.st, c.ret, bytecode, cjs))
        ELSE Returns(c.st, c.ret)
  IN  Constructed(RuntimeModuleCtor(S, domain, persistent))

\* RuntimeModule::create
create(S, domain, bytecode, persistent, cjs) ==
  LET Initialized(result, r) ==
        IF r.ret = EXCEPTION THEN Returns(r.st, EXCEPTION) ELSE Returns(r.st, result)
      Constructed(c) ==
        IF bytecode.kind # "none"
        THEN Initialized(c.ret, initializeMayAllocate(c.st, c.ret, bytecode, cjs))
        ELSE Returns(c.st, c.ret)
  IN  Constructed(RuntimeModuleCtor(S, domain, persistent))

\* RuntimeModule::createUninitialized
createUninitialized(S, domain) == RuntimeModuleCtor(S, domain, FALSE)

-----------------------------------------------------------------------------
(* Lazy materialisation of CodeBlocks. *)

isInitialized(S, m) == S.bcProvider[m].kind # "none"

\* RuntimeModule::getSymbolIDFromStringIDMayAllocate: the mapped symbol, made
\* on demand for a string that was not interned when the unit was loaded.
getSymbolIDFromStringIDMayAllocate(S, m, stringID) ==
  LET id == At(S.stringIDMap[m], stringID)
  IN  IF ~isValid(id)
      THEN createSymbolFromStringIDMayAllocate(
             S, m, stringID, getStringTableEntry(S.bcProvider[m], stringID), NoHash)
      ELSE Returns(S, id)

\* RuntimeModule::getOnlyLazyCodeBlock
getOnlyLazyCodeBlock(S, m) == At(S.functionMap[m], 0)

\* createLazyModule with a slip: the name is interned for the child alone,
\* and the parent's stringIDMap_ is not asked and not filled.
createLazyModule_nameForChild(S, domain, parent, functionID) ==
  LET parentUnit == S.bcProvider[parent].name
      name == getStringTableEntry(S.bcProvider[parent],
                                  At(Provider(parentUnit).functionName, functionID)).str
      Named(RM, S1, r) ==
        Returns([S1 EXCEPT !.identifierTable = r.table,
                           !.stringIDMap[RM] = Append(@, r.id),
                           !.lazyParent[RM] = <<parent, functionID>>],
                RM)
      WithBlock(RM, cb) ==
        Named(RM, [cb.st EXCEPT !.functionMap[RM] = Append(@, cb.ret)],
              internIdentifier(cb.st.identifierTable, name, hashString(name), FALSE))
      Constructed(c) ==
        WithBlock(
          c.ret,
          createCodeBlock(
            [Check(c.st, isInitialized(c.st, parent), "assert parent->isInitialized()")
               EXCEPT !.bcProvider[c.ret] = BCProviderLazy(parentUnit, functionID)],
            c.ret, functionID))
  IN  Constructed(createUninitialized(S, domain))

\* RuntimeModule::createLazyModule
createLazyModule(S, domain, parent, functionID) ==
  LET parentUnit == S.bcProvider[parent].name
      Named(RM, sym) ==
        Returns([sym.st EXCEPT !.stringIDMap[RM] = Append(@, sym.ret),
                               !.lazyParent[RM] = <<parent, functionID>>],
                RM)
      WithBlock(RM, cb) ==
        Named(RM,
              getSymbolIDFromStringIDMayAllocate(
                [cb.st EXCEPT !.functionMap[RM] = Append(@, cb.ret)],
                parent, At(Provider(parentUnit).functionName, functionID)))
      Constructed(c) ==
        WithBlock(
          c.ret,
          createCodeBlock(
            [Check(c.st, isInitialized(c.st, parent), "assert parent->isInitialized()")
               EXCEPT !.bcProvider[c.ret] = BCProviderLazy(parentUnit, functionID)],
            c.ret, functionID))
  IN  Constructed(createUninitialized(S, domain))

\* getCodeBlockSlowPath with a slip: a CodeBlock of the unit is created for the
\* module the domain was made for, not for this module.
getCodeBlockSlowPath_ownerRoot(S, m, index) ==
  LET Stored(S1, block) ==
        Returns([S1 EXCEPT !.functionMap[m] = SetAt(@, index, block)], block)
      FromLazy(l) == Stored(l.st, getOnlyLazyCodeBlock(l.st, l.ret))
      FromUnit(cb) == Stored(cb.st, cb.ret)
  IN  IF isFunctionLazy(S.bcProvider[m], index)
      THEN FromLazy(createLazyModule(S, S.domainOf[m], m, index))
      ELSE FromUnit(createCodeBlock(S, S.domainOf[m], index))

\* getCodeBlockSlowPath with a slip: the new CodeBlock of the unit is returned
\* and not stored.
getCodeBlockSlowPath_noStore(S, m, index) ==
  LET Stored(S1, block) ==
        Returns([S1 EXCEPT !.functionMap[m] = SetAt(@, index, block)], block)
      FromLazy(l) == Stored(l.st, getOnlyLazyCodeBlock(l.st, l.ret))
  IN  IF isFunctionLazy(S.bcProvider[m], index)
      THEN FromLazy(createLazyModule(S, S.domainOf[m], m, index))
      ELSE createCodeBlock(S, m, index)

\* getCodeBlockSlowPath with an assertion it does not have: a resident slot
\* fails it and is returned as it is.
getCodeBlockSlowPath_asserting(S, m, index) ==
  LET Stored(S1, block) ==
        Returns([S1 EXCEPT !.functionMap[m] = SetAt(@, index, block)], block)
      FromLazy(l) == Stored(l.st, getOnlyLazyCodeBlock(l.st, l.ret))
      FromUnit(cb) == Stored(cb.st, cb.ret)
  IN  IF At(S.functionMap[m], index) # nullptr
      THEN Returns(Fault(S, "assert !functionMap_[index]"), At(S.functionMap[m], index))
      ELSE IF isFunctionLazy(S.bcProvider[m], index)
      THEN FromLazy(createLazyModule(S, S.domainOf[m], m, index))
      ELSE FromUnit(createCodeBlock(S, m, index))

\* RuntimeModule::getCodeBlockSlowPath
getCodeBlockSlowPath(S, m, index) ==
  LET Stored(S1, block) ==
        Returns([S1 EXCEPT !.functionMap[m] = SetAt(@, index, block)], block)
      FromLazy(l) == Stored(l.st, getOnlyLazyCodeBlock(l.st, l.ret))
      FromUnit(cb) == Stored(cb.st, cb.ret)
  IN  IF isFunctionLazy(S.bcProvider[m], index)
      THEN FromLazy(createLazyModule(S, S.domainOf[m], m, index))
      ELSE FromUnit(createCodeBlock(S, m, index))

\* RuntimeModule::getCodeBlockMayAllocate: the resident CodeBlock, and the
\* slow path only for an empty slot.
getCodeBlockMayAllocate(S, m, index) ==
  IF At(S.functionMap[m], index) # nullptr
  THEN Returns(S, At(S.functionMap[m], index))
  ELSE getCodeBlockSlowPath(S, m, index)

\* The asserts getLazyName and getLazyNameString start with.
isLazyModule(S, m) ==
  Check(Check(Check(S, Len(S.functionMap[m]) = 1, "assert functionMap_.size() == 1"),
              Len(S.stringIDMap[m]) = 1, "assert stringIDMap_.size() == 1"),
        Len(S.stringIDMap[m]) >= 1 /\ isValid(At(S.stringIDMap[m], 0)),
        "assert stringIDMap_[0].isValid()")

\* RuntimeModule::getLazyName
getLazyName(S, m) == Returns(isLazyModule(S, m), At(S.stringIDMap[m], 0))

\* IdentifierTable::getStringView: the code units of the symbol's string.
getStringView(S, id) == S.identifierTable[id + 1].str

\* StringView::isASCII.  In the units of the model a string is stored in the
\* narrow encoding exactly when each of its code units fits one.
isASCII(strView) == \A k \in 1 .. Len(strView) : strView[k] < 128

\* getLazyNameString with a slip: a name that is not ASCII is written too.
getLazyNameString_lossy(S, m, res) ==
  LET strView == getStringView(S, At(S.stringIDMap[m], 0))
  IN  IF isASCII(strView)
      THEN Returns(isLazyModule(S, m), [ok |-> TRUE, res |-> strView])
      ELSE Returns(isLazyModule(S, m), [ok |-> FALSE, res |-> strView])

\* RuntimeModule::getLazyNameString(runtime, res): the bool it returns and
\* what res holds afterwards.
getLazyNameString(S, m, res) ==
  LET strView == getStringView(S, At(S.stringIDMap[m], 0))
  IN  IF isASCII(strView)
      THEN Returns(isLazyModule(S, m), [ok |-> TRUE, res |-> strView])
      ELSE Returns(isLazyModule(S, m), [ok |-> FALSE, res |-> res])

\* initializeLazyMayAllocate with a slip: the CodeBlock stays in slot 0.
initializeLazyMayAllocate_noMove(S, m, bytecode) ==
  LET Initialized(S2) ==
        Check(S2, At(S2.functionMap[m], 0) # nullptr, "assert functionMap_[0]")
  IN  Initialized(initializeWithoutCJSModulesMayAllocate(
        [S EXCEPT !.bcProvider[m] = NoProvider], m, bytecode))

\* initializeLazyMayAllocate with a slip: the CodeBlock is copied to its
\* index and slot 0 is not cleared.
initializeLazyMayAllocate_keepZero(S, m, bytecode) ==
  LET Move(S3, g) ==
        IF g = 0 THEN S3
        ELSE [Check(S3, At(S3.functionMap[m], g) = nullptr,
                    "assert !functionMap_[getGlobalFunctionIndex()]")
                EXCEPT !.functionMap[m] = SetAt(@, g, At(S3.functionMap[m], 0))]
      Initialized(S2) ==
        Move(Check(S2, At(S2.functionMap[m], 0) # nullptr, "assert functionMap_[0]"),
             getGlobalFunctionIndex(S2.bcProvider[m]))
  IN  Initialized(initializeWithoutCJSModulesMayAllocate(
        [S EXCEPT !.bcProvider[m] = NoProvider], m, bytecode))

\* initializeLazyMayAllocate with a step it does not have: once the CodeBlock
\* is moved, the module is taken off the runtime's list.
initializeLazyMayAllocate_discarding(S, m, bytecode) ==
  LET Move(S3, g) ==
        IF g = 0 THEN S3
        ELSE [Check(S3, At(S3.functionMap[m], g) = nullptr,
                    "assert !functionMap_[getGlobalFunctionIndex()]")
                EXCEPT !.functionMap[m] =
                  SetAt(SetAt(@, g, At(S3.functionMap[m], 0)), 0, nullptr)]
      Initialized(S2) ==
        Move(Check(S2, At(S2.functionMap[m], 0) # nullptr, "assert functionMap_[0]"),
             getGlobalFunctionIndex(S2.bcProvider[m]))
      Discarded(S4) == [S4 EXCEPT !.runtimeModules = @ \ {m}]
  IN  Discarded(Initialized(initializeWithoutCJSModulesMayAllocate(
        [S EXCEPT !.bcProvider[m] = NoProvider], m, bytecode)))

\* RuntimeModule::initializeLazyMayAllocate
initializeLazyMayAllocate(S, m, bytecode) ==
  LET Move(S3, g) ==
        IF g = 0 THEN S3
        ELSE [Check(S3, At(S3.functionMap[m], g) = nullptr,
                    "assert !functionMap_[getGlobalFunctionIndex()]")
                EXCEPT !.functionMap[m] =
                  SetAt(SetAt(@, g, At(S3.functionMap[m], 0)), 0, nullptr)]
      Initialized(S2) ==
        Move(Check(S2, At(S2.functionMap[m], 0) # nullptr, "assert functionMap_[0]"),
             getGlobalFunctionIndex(S2.bcProvider[m]))
  IN  Initialized(initializeWithoutCJSModulesMayAllocate(
        [S EXCEPT !.bcProvider[m] = NoProvider], m, bytecode))

-----------------------------------------------------------------------------
(* Teardown. *)

\* prepareForRuntimeShutdown with a slip: every resident slot is cleared,
\* whoever owns its CodeBlock.
RECURSIVE prepareFrom_clearAll(_, _, _, _)
prepareFrom_clearAll(S, m, i, garbage) ==
  IF i >= Len(S.functionMap[m]) THEN S
  ELSE prepareFrom_clearAll(
         [S EXCEPT !.functionMap[m] = SetAt(@, i, nullptr)], m, i + 1, garbage)

\* prepareForRuntimeShutdown with a slip: the test is == this, so the slots
\* that are cleared are the module's own and the borrowed ones stay.
RECURSIVE prepareFrom_keepBorrowed(_, _, _, _)
prepareFrom_keepBorrowed(S, m, i, garbage) ==
  IF i >= Len(S.functionMap[m]) THEN S
  ELSE LET block == At(S.functionMap[m], i)
       IN  IF block # nullptr /\ ownedBy(S, block, m, garbage)
           THEN prepareFrom_keepBorrowed(
                  [S EXCEPT !.functionMap[m] = SetAt(@, i, nullptr)], m, i + 1, garbage)
           ELSE prepareFrom_keepBorrowed(S, m, i + 1, garbage)

\* RuntimeModule::prepareForRuntimeShutdown, slots i .. size-1
RECURSIVE prepareFrom(_, _, _, _)
prepareFrom(S, m, i, garbage) ==
  IF i >= Len(S.functionMap[m]) THEN S
  ELSE LET block == At(S.functionMap[m], i)
       IN  IF block # nullptr /\ ~ownedBy(S, block, m, garbage)
           THEN prepareFrom(
                  [Check(S, ~readsDeleted(S, block), "read of a deleted CodeBlock")
                     EXCEPT !.functionMap[m] = SetAt(@, i, nullptr)],
                  m, i + 1, garbage)
           ELSE prepareFrom(
                  IF block # nullptr
                  THEN Check(S, ~readsDeleted(S, block), "read of a deleted CodeBlock")
                  ELSE S,
                  m, i + 1, garbage)

prepareForRuntimeShutdown(S, m, garbage) ==
  [prepareFrom(S, m, 0, garbage) EXCEPT !.prepared = @ \cup {m}]

\* The destructor's loop over functionMap_, slots i .. size-1
RECURSIVE deleteFrom(_, _, _, _)
deleteFrom(S, m, i, garbage) ==
  LET block == At(S.functionMap[m], i)
      Read(S1) ==
        IF ownedBy(S, block, m, garbage)
        THEN deleteFrom(deleteBlock(S1, block), m, i + 1, garbage)
        ELSE deleteFrom(S1, m, i + 1, garbage)
  IN  IF i >= Len(S.functionMap[m]) THEN S
      ELSE IF block = nullptr THEN deleteFrom(S, m, i + 1, garbage)
      ELSE Read(Check(S, ~readsDeleted(S, block), "read of a deleted CodeBlock"))

\* RuntimeModule::~RuntimeModule; the module's own vectors go with it.
RuntimeModuleDtor(S, m, garbage) ==
  [deleteFrom([S EXCEPT !.runtimeModules = @ \ {m}], m, 0, garbage)
     EXCEPT !.functionMap[m] = <<>>, !.stringIDMap[m] = <<>>,
            !.objectLiteralHiddenClasses[m] = <<>>,
            !.templateMap[m] = <<>>,
            !.bcProvider[m] = NoProvider]

-----------------------------------------------------------------------------
(* The cache of literal hidden classes.  A key packs the buffer index      *)
(* (24 bits) and the number of literals (8 bits) into a uint32_t.          *)

KeyIndexLimit == 16777216
KeyLiteralLimit == 256

\* RuntimeModule::canGenerateLiteralHiddenClassCacheKey
canGenerateLiteralHiddenClassCacheKey(keyBufferIndex, numLiterals) ==
  keyBufferIndex < KeyIndexLimit /\ numLiterals < KeyLiteralLimit

\* RuntimeModule::getLiteralHiddenClassCacheHashKey:
\* ((uint32_t)keyBufferIndex << 8) | numLiterals, as <<high 24 bits, low 8 bits>>.
getLiteralHiddenClassCacheHashKey(keyBufferIndex, numLiterals) ==
  <<BitOr(keyBufferIndex % KeyIndexLimit, (numLiterals \div KeyLiteralLimit) % KeyIndexLimit),
    numLiterals % KeyLiteralLimit>>

\* The hidden classes of the heap, each with its number of properties.
HiddenClasses == {"H1", "H1b", "H2", "H256"}

getNumProperties(clazz) ==
  CASE clazz = "H1" -> 1
    [] clazz = "H1b" -> 1
    [] clazz = "H2" -> 2
    [] clazz = "H256" -> 256

NoClass == "nullptr"
None == "None"

\* findCachedLiteralHiddenClass with a slip: the key is looked up without
\* asking whether one can be generated.
findCachedLiteralHiddenClass_unguarded(S, m, keyBufferIndex, numLiterals) ==
  LET cache == S.objectLiteralHiddenClasses[m]
      key == getLiteralHiddenClassCacheHashKey(keyBufferIndex, numLiterals)
  IN  IF key \in DOMAIN cache /\ cache[key] # NoClass
      THEN cache[key]
      ELSE None

\* RuntimeModule::findCachedLiteralHiddenClass
findCachedLiteralHiddenClass(S, m, keyBufferIndex, numLiterals) ==
  LET cache == S.objectLiteralHiddenClasses[m]
      key == getLiteralHiddenClassCacheHashKey(keyBufferIndex, numLiterals)
  IN  IF /\ canGenerateLiteralHiddenClassCacheKey(keyBufferIndex, numLiterals)
         /\ key \in DOMAIN cache
         /\ cache[key] # NoClass
      THEN cache[key]
      ELSE None

\* tryCacheLiteralHiddenClass with a slip: the entry is written without
\* asserting that the key misses.
tryCacheLiteralHiddenClass_noAssert(S, m, keyBufferIndex, clazz) ==
  LET numLiterals == getNumProperties(clazz)
      key == getLiteralHiddenClassCacheHashKey(keyBufferIndex, numLiterals)
  IN  IF canGenerateLiteralHiddenClassCacheKey(keyBufferIndex, numLiterals)
      THEN [S EXCEPT !.objectLiteralHiddenClasses[m] = (key :> clazz) @@ @]
      ELSE S

\* RuntimeModule::tryCacheLiteralHiddenClass
tryCacheLiteralHiddenClass(S, m, keyBufferIndex, clazz) ==
  LET numLiterals == getNumProperties(clazz)
      key == getLiteralHiddenClassCacheHashKey(keyBufferIndex, numLiterals)
  IN  IF canGenerateLiteralHiddenClassCacheKey(keyBufferIndex, numLiterals)
      THEN [Check(S, findCachedLiteralHiddenClass(S, m, keyBufferIndex, numLiterals) = None,
                  "assert !findCachedLiteralHiddenClass().hasValue()")
              EXCEPT !.objectLiteralHiddenClasses[m] = (key :> clazz) @@ @]
      ELSE S

-----------------------------------------------------------------------------
(* Garbage collection.  The collector hands markRoots an acceptor of strong *)
(* roots and markWeakRoots an acceptor of weak roots; the weak acceptor     *)
(* sets a slot to null when the object it points to was not marked.         *)

\* The template objects of the heap.
TemplateObjects == {"T1", "T2"}

\* The second loop of markRoots, entries i .. size-1: the symbols handed to
\* the acceptor.
RECURSIVE acceptValidFrom(_, _)
acceptValidFrom(map, i) ==
  IF i >= Len(map) THEN <<>>
  ELSE (IF isValid(At(map, i)) THEN <<At(map, i)>> ELSE <<>>) \o acceptValidFrom(map, i + 1)

\* markRoots with a slip: the values of the literal cache are handed to the
\* acceptor as well.
markRoots_withLiteralCache(S, m, markLongLived) ==
  [pointers |-> {S.templateMap[m][id] : id \in DOMAIN S.templateMap[m]} \cup
                ({S.objectLiteralHiddenClasses[m][key] :
                    key \in DOMAIN S.objectLiteralHiddenClasses[m]} \ {NoClass}),
   symbols |-> IF markLongLived THEN acceptValidFrom(S.stringIDMap[m], 0) ELSE <<>>]

\* markRoots with a slip: under markLongLived every entry of stringIDMap_ is
\* handed to the acceptor, valid or not.
markRoots_unfiltered(S, m, markLongLived) ==
  [pointers |-> {S.templateMap[m][id] : id \in DOMAIN S.templateMap[m]},
   symbols |-> IF markLongLived THEN S.stringIDMap[m] ELSE <<>>]

\* RuntimeModule::markRoots: what it hands to the acceptor.
markRoots(S, m, markLongLived) ==
  [pointers |-> {S.templateMap[m][id] : id \in DOMAIN S.templateMap[m]},
   symbols |-> IF markLongLived THEN acceptValidFrom(S.stringIDMap[m], 0) ELSE <<>>]

\* The first loop of markWeakRoots with a slip: every CodeBlock of the map is
\* asked, whoever owns it.
RECURSIVE markCodeBlocksFrom_everyResident(_, _, _, _)
markCodeBlocksFrom_everyResident(S, m, i, garbage) ==
  LET cbPtr == At(S.functionMap[m], i)
      Rest(r) == Returns(r.st, <<cbPtr>> \o r.ret)
  IN  IF i >= Len(S.functionMap[m]) THEN Returns(S, <<>>)
      ELSE IF cbPtr = nullptr THEN markCodeBlocksFrom_everyResident(S, m, i + 1, garbage)
      ELSE Rest(markCodeBlocksFrom_everyResident(S, m, i + 1, garbage))

\* The first loop of markWeakRoots, slots i .. size-1: the CodeBlocks asked
\* to mark their cached hidden classes.
RECURSIVE markCodeBlocksFrom(_, _, _, _)
markCodeBlocksFrom(S, m, i, garbage) ==
  LET cbPtr == At(S.functionMap[m], i)
      Rest(r) == Returns(r.st, <<cbPtr>> \o r.ret)
      Read(S1) ==
        IF ownedBy(S, cbPtr, m, garbage)
        THEN Rest(markCodeBlocksFrom(S1, m, i + 1, garbage))
        ELSE markCodeBlocksFrom(S1, m, i + 1, garbage)
  IN  IF i >= Len(S.functionMap[m]) THEN Returns(S, <<>>)
      ELSE IF cbPtr = nullptr THEN markCodeBlocksFrom(S, m, i + 1, garbage)
      ELSE Read(Check(S, ~readsDeleted(S, cbPtr), "read of a deleted CodeBlock"))

\* The weak acceptor on the slots of a cache that are not null.
acceptWeak(cache, marked) ==
  [key \in DOMAIN cache |->
     IF cache[key] # NoClass /\ cache[key] \notin marked THEN NoClass ELSE cache[key]]

\* markWeakRoots with a slip: the slots of the literal cache are not handed
\* to the acceptor.
markWeakRoots_codeBlocksOnly(S, m, marked, garbage) ==
  markCodeBlocksFrom(S, m, 0, garbage)

\* RuntimeModule::markWeakRoots, with the objects the collector has marked;
\* returns the CodeBlocks it asked to mark their cached hidden classes.
markWeakRoots(S, m, marked, garbage) ==
  LET Slots(r) ==
        Returns([r.st EXCEPT !.objectLiteralHiddenClasses[m] = acceptWeak(@, marked)],
                r.ret)
  IN  Slots(markCodeBlocksFrom(S, m, 0, garbage))

\* markWeakRoots on every module of a set, one after the other.
RECURSIVE markWeakRootsOfAll(_, _, _)
markWeakRootsOfAll(S, todo, marked) ==
  IF todo = {} THEN S
  ELSE LET m == CHOOSE k \in todo : \A j \in todo : k <= j
       IN  markWeakRootsOfAll(markWeakRoots(S, m, marked, FALSE).st, todo \ {m}, marked)

\* One collection: the objects marked are the ones reachable from elsewhere
\* and the strong roots of the modules; then the weak roots are visited.
collect(S, reachable, markLongLived) ==
  markWeakRootsOfAll(
    S, S.runtimeModules,
    reachable \cup UNION {markRoots(S, m, markLongLived).pointers : m \in S.runtimeModules})

\* RuntimeModule::cacheTemplateObject
cacheTemplateObject(S, m, templateObjID, templateObj) ==
  [Check(S, templateObjID \notin DOMAIN S.templateMap[m], "assert template object not cached")
     EXCEPT !.templateMap[m] = (templateObjID :> templateObj) @@ @]

-----------------------------------------------------------------------------
(* The state machine.  One mutator thread runs every operation to its end. *)

EmptyRuntime ==
  [runtimeModules |-> {}, domainOf |-> <<>>, bcProvider |-> <<>>, flags |-> <<>>,
   functionMap |-> <<>>, stringIDMap |-> <<>>, objectLiteralHiddenClasses |-> <<>>,
   templateMap |-> <<>>, cjsModules |-> {},
   codeBlocks |-> <<>>, identifierTable |-> InitialIdentifierTable,
   lazyParent |-> <<>>, phase |-> "running", prepared |-> {}, faults |-> {},
   calls |-> <<>>]

IsState(S) ==
  /\ runtimeModules = S.runtimeModules
  /\ domainOf = S.domainOf
  /\ bcProvider = S.bcProvider
  /\ flags = S.flags
  /\ functionMap = S.functionMap
  /\ stringIDMap = S.stringIDMap
  /\ objectLiteralHiddenClasses = S.objectLiteralHiddenClasses
  /\ templateMap = S.templateMap
  /\ cjsModules = S.cjsModules
  /\ codeBlocks = S.codeBlocks
  /\ identifierTable = S.identifierTable
  /\ lazyParent = S.lazyParent
  /\ phase = S.phase
  /\ prepared = S.prepared
  /\ faults = S.faults

Becomes(S) ==
  /\ runtimeModules' = S.runtimeModules
  /\ domainOf' = S.domainOf
  /\ bcProvider' = S.bcProvider
  /\ flags' = S.flags
  /\ functionMap' = S.functionMap
  /\ stringIDMap' = S.stringIDMap
  /\ objectLiteralHiddenClasses' = S.objectLiteralHiddenClasses
  /\ templateMap' = S.templateMap
  /\ cjsModules' = S.cjsModules
  /\ codeBlocks' = S.codeBlocks
  /\ identifierTable' = S.identifierTable
  /\ lazyParent' = S.lazyParent
  /\ phase' = S.phase
  /\ prepared' = S.prepared
  /\ faults' = S.faults

Init == IsState(EmptyRuntime)

TopLevel(S) == {m \in Modules(S) : S.lazyParent[m] = NoParent}

CJSStatus == {RETURNED, EXCEPTION}

\* What a caller may hand to create: no bytecode, or a compiled unit.
TopLevelBytecode == {NoProvider} \cup {FromSrc(n) : n \in TopLevelProviders}

\* The units with lazy functions.
LazyUnits == {FromSrc(n) : n \in {"PA", "PC"}}

\* How the runtime loads them: PC from a buffer that outlives the runtime
\* (persistent), PA from one that does not.
LazyLoads == {<<bc, bc.name = "PC">> : bc \in LazyUnits}

\* The runtime loads a unit into a domain of its own.
Create(bytecode, persistent, cjs) ==
  /\ phase = "running"
  /\ Cardinality(Modules(Cur)) < MaxModules
  /\ Cardinality(TopLevel(Cur)) < MaxTopLevel
  /\ Becomes(create(Cur, Cardinality(Modules(Cur)) + 1, bytecode, persistent, cjs).st)

\* The interpreter asks for the CodeBlock of a function of the module's unit.
GetCodeBlock(m, index) ==
  /\ phase = "running"
  /\ m \in runtimeModules
  /\ index \in Indices(functionMap[m])
  /\ \/ At(functionMap[m], index) # nullptr
     \/ ~isFunctionLazy(bcProvider[m], index)
     \/ Cardinality(Modules(Cur)) < MaxModules
  /\ Becomes(getCodeBlockMayAllocate(Cur, m, index).st)

\* The unit the compiler makes of the lazy function a BCProviderLazy holds.
compiledUnit(bc) == FromSrc(At(Provider(bc.name).compiled, bc.fn))

\* The first call of a lazy function compiles it: CodeBlock::lazyCompile hands
\* the module the unit the compiler made of the function.
LazyCompile(m) ==
  /\ phase = "running"
  /\ m \in runtimeModules
  /\ bcProvider[m].kind = "lazy"
  /\ Becomes(initializeLazyMayAllocate(Cur, m, compiledUnit(bcProvider[m])))

\* The runtime shuts down: it prepares every module of its list, in the
\* list's order, and then the modules are destroyed, in any order.
BeginShutdown ==
  /\ phase = "running"
  /\ runtimeModules # {}
  /\ Becomes([Cur EXCEPT !.phase = "shutdown"])

PrepareForRuntimeShutdown(m, garbage) ==
  /\ phase = "shutdown"
  /\ m \in runtimeModules \ prepared
  /\ \A k \in runtimeModules \ prepared : m <= k
  /\ Becomes(prepareForRuntimeShutdown(Cur, m, garbage))

Destroy(m, garbage) ==
  /\ phase = "shutdown"
  /\ m \in runtimeModules
  /\ runtimeModules \subseteq prepared
  /\ Becomes(RuntimeModuleDtor(Cur, m, garbage))

Next ==
  \/ \E load \in LazyLoads, cjs \in CJSStatus : Create(load[1], load[2], cjs)
  \/ \E m \in runtimeModules, index \in 0 .. 2 : GetCodeBlock(m, index)
  \/ \E m \in runtimeModules : LazyCompile(m)
  \/ BeginShutdown
  \/ \E m \in runtimeModules, garbage \in BOOLEAN : PrepareForRuntimeShutdown(m, garbage)
  \/ \E m \in runtimeModules, garbage \in BOOLEAN : Destroy(m, garbage)

Spec == Init /\ [][Next]_vars

-----------------------------------------------------------------------------
(* Loading: units are loaded one after another into one runtime, with or   *)
(* without bytecode, and a module created without bytecode is initialized  *)
(* later.                                                                  *)

Load(bytecode, persistent, cjs) ==
  /\ Cardinality(Modules(Cur)) < MaxLoads
  /\ Becomes(create(Cur, Cardinality(Modules(Cur)) + 1, bytecode, persistent, cjs).st)

Initialize(m, bytecode, cjs) ==
  /\ m \in runtimeModules
  /\ ~isInitialized(Cur, m)
  /\ Becomes(initializeMayAllocate(Cur, m, bytecode, cjs).st)

NextLoad ==
  \/ \E bytecode \in TopLevelBytecode, persistent \in BOOLEAN, cjs \in CJSStatus :
       Load(bytecode, persistent, cjs)
  \/ \E m \in runtimeModules, n \in TopLevelProviders, cjs \in CJSStatus :
       Initialize(m, FromSrc(n), cjs)

SpecLoad == Init /\ [][NextLoad]_vars

-----------------------------------------------------------------------------
(* The literal cache in use: two loaded modules, and an interpreter that   *)
(* looks hidden classes up and caches them.                                *)

TwoLoaded ==
  create(create(EmptyRuntime, 1, FromSrc("PA"), FALSE, RETURNED).st,
         2, FromSrc("PB"), TRUE, RETURNED).st

InitCache == IsState(TwoLoaded)

BufferIndices == {0, 1, KeyIndexLimit}

LiteralCounts == {1, 2, KeyLiteralLimit}

TryCache(m, keyBufferIndex, clazz) ==
  Becomes(tryCacheLiteralHiddenClass(Cur, m, keyBufferIndex, clazz))

\* A lookup changes nothing.
Find(m, keyBufferIndex, numLiterals) ==
  /\ findCachedLiteralHiddenClass(Cur, m, keyBufferIndex, numLiterals) \in
       HiddenClasses \cup {None}
  /\ UNCHANGED vars

NextCache ==
  \/ \E m \in runtimeModules, k \in BufferIndices, clazz \in HiddenClasses :
       TryCache(m, k, clazz)
  \/ \E m \in runtimeModules, k \in BufferIndices, n \in LiteralCounts : Find(m, k, n)

SpecCache == InitCache /\ [][NextCache]_vars

-----------------------------------------------------------------------------
(* The caches under garbage collection: the interpreter caches hidden      *)
(* classes and template objects, and the collector runs at any time, with  *)
(* any set of hidden classes reachable from elsewhere.                     *)

Collect(reachable, markLongLived) ==
  Becomes(collect(Cur, reachable, markLongLived))

CacheTemplateObject(m, templateObjID, templateObj) ==
  /\ templateObjID \notin DOMAIN templateMap[m]
  /\ Becomes(cacheTemplateObject(Cur, m, templateObjID, templateObj))

\* The hidden classes the interpreter caches at buffer index 0.
CachedClasses == {"H1", "H1b", "H2"}

NextGC ==
  \/ \E m \in runtimeModules, clazz \in CachedClasses : TryCache(m, 0, clazz)
  \/ \E reachable \in SUBSET CachedClasses, markLongLived \in BOOLEAN :
       Collect(reachable, markLongLived)
  \/ \E m \in runtimeModules, templateObj \in TemplateObjects :
       CacheTemplateObject(m, 0, templateObj)

SpecGC == InitCache /\ [][NextGC]_vars

-----------------------------------------------------------------------------
(* Properties of the function map (checked under Spec). *)

OwnerOf(S, block) == S.codeBlocks[block].runtimeModule

\* The indices of the resident (non-null) slots of a function map.
Residents(map) == {i \in Indices(map) : At(map, i) # nullptr}

LazyChildren(S, b) ==
  {c \in Modules(S) : S.lazyParent[c] # NoParent /\ S.lazyParent[c][1] = b}

\* The modules reachable from b through the chain of lazy children.
RECURSIVE Descendants(_, _)
Descendants(S, b) ==
  LazyChildren(S, b) \cup UNION {Descendants(S, c) : c \in LazyChildren(S, b)}

\* C1: every resident slot of a live module holds a live CodeBlock whose owner
\* is the module itself or a live module reachable from it through the chain
\* of lazy children it created.
C1_OwnerIsSelfOrLazyDescendant ==
  \A b \in runtimeModules : \A i \in Residents(functionMap[b]) :
    LET block == At(functionMap[b], i)
    IN  /\ block \in DOMAIN codeBlocks
        /\ codeBlocks[block].deletes = 0
        /\ OwnerOf(Cur, block) \in ({b} \cup Descendants(Cur, b)) \cap runtimeModules

\* A module borrows a CodeBlock of its lazy child, which has been compiled and
\* borrows one of a lazy child of its own.
C1_Witness ==
  \E b \in runtimeModules : \E i \in Residents(functionMap[b]) :
    LET c == OwnerOf(Cur, At(functionMap[b], i))
    IN  /\ c # b
        /\ c \in runtimeModules
        /\ \E j \in Residents(functionMap[c]) :
             OwnerOf(Cur, At(functionMap[c], j)) \notin {b, c}

\* C2: asking a module twice for the CodeBlock of an index returns the same
\* resident CodeBlock both times.  The first request fills an empty slot with
\* one new CodeBlock (the module's own, or the one of one new lazy child when
\* the function is lazy) and leaves a resident slot alone; the second request
\* changes nothing.
C2_GetCodeBlockIdempotent ==
  \A m \in runtimeModules : \A i \in Indices(functionMap[m]) :
    LET first == getCodeBlockMayAllocate(Cur, m, i)
        second == getCodeBlockMayAllocate(first.st, m, i)
        madeModules == Modules(first.st) \ Modules(Cur)
        madeBlocks == DOMAIN first.st.codeBlocks \ DOMAIN codeBlocks
    IN  /\ first.ret # nullptr
        /\ first.ret \in DOMAIN first.st.codeBlocks
        /\ At(first.st.functionMap[m], i) = first.ret
        /\ second.ret = first.ret
        /\ second.st = first.st
        /\ IF At(functionMap[m], i) = nullptr
           THEN /\ madeBlocks = {first.ret}
                /\ IF isFunctionLazy(bcProvider[m], i)
                   THEN /\ Cardinality(madeModules) = 1
                        /\ OwnerOf(first.st, first.ret) \in madeModules
                   ELSE /\ madeModules = {}
                        /\ OwnerOf(first.st, first.ret) = m
           ELSE /\ first.st = Cur
                /\ first.ret = At(functionMap[m], i)

\* A running module holds a CodeBlock of its own and one of a lazy child: both
\* kinds of first request have been served.
C2_Witness ==
  /\ phase = "running"
  /\ \E m \in runtimeModules : \E i, j \in Residents(functionMap[m]) :
       /\ OwnerOf(Cur, At(functionMap[m], i)) = m
       /\ OwnerOf(Cur, At(functionMap[m], j)) # m

\* A unit of three functions whose function 1 is lazy.
ThreeWithLazyOne(bc) ==
  /\ bc.kind = "src"
  /\ Provider(bc.name).functionCount = 3
  /\ 1 \in Provider(bc.name).lazyFunctions

\* From loading such a unit until function 1 is first referenced, slot 1 of
\* the module's map of three slots is empty.
C3_AfterLoading ==
  \A m \in runtimeModules :
    (ThreeWithLazyOne(bcProvider[m]) /\ \A c \in LazyChildren(Cur, m) : lazyParent[c][2] # 1) =>
      /\ Len(functionMap[m]) = 3
      /\ At(functionMap[m], 1) = nullptr

\* The first reference to function 1 of module m, and where the child's one
\* CodeBlock is found after it: WhereAfter(child's function map, index the
\* compiled unit reports).
C3_FirstReference(WhereAfter(_, _)) ==
  \A m \in runtimeModules :
    (ThreeWithLazyOne(bcProvider[m]) /\ At(functionMap[m], 1) = nullptr) =>
      LET r == getCodeBlockSlowPath(Cur, m, 1)
          child == OwnerOf(r.st, r.ret)
      IN  /\ r.ret # nullptr
          /\ At(r.st.functionMap[m], 1) = r.ret
          /\ child # m
          /\ child \notin Modules(Cur)
          /\ child \in r.st.runtimeModules
          /\ Cardinality(Residents(r.st.functionMap[child])) = 1
          /\ WhereAfter(r.st.functionMap[child],
                        getGlobalFunctionIndex(compiledUnit(r.st.bcProvider[child])))

\* Compiling the child moves its CodeBlock to the index the compiled unit
\* reports, and the parent's slot still holds it.
C3_AfterCompile ==
  \A c \in runtimeModules :
    bcProvider[c].kind = "lazy" =>
      LET block == At(functionMap[c], 0)
          S2 == initializeLazyMayAllocate(Cur, c, compiledUnit(bcProvider[c]))
          g == getGlobalFunctionIndex(S2.bcProvider[c])
      IN  /\ Residents(S2.functionMap[c]) = {g}
          /\ At(S2.functionMap[c], g) = block
          /\ \A k \in Modules(Cur) \ {c} : S2.functionMap[k] = functionMap[k]

\* C3 as claimed: after the first reference the child's only CodeBlock is at
\* its resolved global index.
C3_Original ==
  /\ C3_AfterLoading
  /\ C3_FirstReference(LAMBDA map, g : Residents(map) = {g})

\* C3 as amended: after the first reference the child's function map is one
\* slot long and its only CodeBlock is in slot 0; the CodeBlock moves to the
\* resolved global index when the child compiles the function.
C3_Amended ==
  /\ C3_AfterLoading
  /\ C3_FirstReference(LAMBDA map, g : Len(map) = 1 /\ Residents(map) = {0})
  /\ \A c \in runtimeModules :
       bcProvider[c].kind = "lazy" =>
         /\ Len(functionMap[c]) = 1
         /\ Residents(functionMap[c]) = {0}
         /\ OwnerOf(Cur, At(functionMap[c], 0)) = c
  /\ C3_AfterCompile

\* Function 1 of a unit of three has been referenced, and its lazy child has
\* not compiled it yet.
C3_Witness ==
  \E m \in runtimeModules :
    /\ ThreeWithLazyOne(bcProvider[m])
    /\ At(functionMap[m], 1) # nullptr
    /\ LET child == OwnerOf(Cur, At(functionMap[m], 1))
       IN  /\ child \in runtimeModules \ {m}
           /\ bcProvider[child].kind = "lazy"
           /\ lazyParent[child] = <<m, 1>>

\* C4: prepareForRuntimeShutdown clears exactly the slots whose CodeBlock
\* another module owns, leaves the empty and the self-owned slots as they
\* are, keeps the length of the map, and touches no other map and no
\* CodeBlock; a module it has run on holds only CodeBlocks of its own.
C4_PrepareClearsExactlyBorrowed ==
  /\ \A m \in runtimeModules, garbage \in BOOLEAN :
       LET S1 == prepareForRuntimeShutdown(Cur, m, garbage)
           old == functionMap[m]
           new == S1.functionMap[m]
       IN  /\ Len(new) = Len(old)
           /\ \A i \in Indices(old) :
                At(new, i) = IF At(old, i) # nullptr /\ OwnerOf(Cur, At(old, i)) # m
                             THEN nullptr
                             ELSE At(old, i)
           /\ \A k \in Modules(Cur) \ {m} : S1.functionMap[k] = functionMap[k]
           /\ S1.codeBlocks = codeBlocks
  /\ \A m \in runtimeModules \cap prepared : \A i \in Residents(functionMap[m]) :
       OwnerOf(Cur, At(functionMap[m], i)) = m

\* A module that lent a slot to a lazy child has been prepared: the borrowed
\* slot is empty and a slot of its own is still resident.
C4_Witness ==
  /\ phase = "shutdown"
  /\ \E m \in runtimeModules \cap prepared : \E c \in LazyChildren(Cur, m) :
       /\ At(functionMap[m], lazyParent[c][2]) = nullptr
       /\ \E j \in Residents(functionMap[m]) : OwnerOf(Cur, At(functionMap[m], j)) = m

\* C5: with every module prepared before the first is destroyed, and the
\* modules destroyed in any order, a CodeBlock is deleted exactly when its
\* owner is destroyed, and once; no destructor reads a deleted CodeBlock.
C5_EachBlockDeletedOnceByOwner ==
  /\ "read of a deleted CodeBlock" \notin faults
  /\ "double delete" \notin faults
  /\ \A block \in DOMAIN codeBlocks :
       codeBlocks[block].deletes =
         IF OwnerOf(Cur, block) \in runtimeModules THEN 0 ELSE 1

\* A lazy child has been destroyed before its parent, and after it the
\* parent, which had borrowed the child's CodeBlock.
C5_Witness ==
  /\ runtimeModules = {}
  /\ \E c \in Modules(Cur) :
       /\ lazyParent[c] # NoParent
       /\ codeBlocks[<<c, lazyParent[c][2], 0>>].deletes = 1
  /\ \E block \in DOMAIN codeBlocks : lazyParent[OwnerOf(Cur, block)] = NoParent

-----------------------------------------------------------------------------
(* Properties of interning (checked under SpecLoad). *)

\* The kind of every string-table entry, from the run-length kind table.
RECURSIVE KindsFrom(_, _)
KindsFrom(kinds, k) ==
  IF k > Len(kinds) THEN <<>>
  ELSE [i \in 1 .. kinds[k].count |-> kinds[k].kind] \o KindsFrom(kinds, k + 1)

KindOf(bc, strID) == At(KindsFrom(getStringKinds(bc), 1), strID)

\* The translation of entry strID: translations are stored for the entries
\* that are not plain strings, in the order of the entries.
TranslationOf(bc, strID) ==
  At(getIdentifierTranslations(bc),
     Cardinality({j \in 0 .. (strID - 1) : KindOf(bc, j) # KString}))

StringIndices(bc) == 0 .. (getStringCount(bc) - 1)

OfKind(bc, kind) == {i \in StringIndices(bc) : KindOf(bc, i) = kind}

\* The initialized live modules whose unit has a string table.
Interned == {m \in runtimeModules : isInitialized(Cur, m)}

\* What interning the unit's identifier entries may put into the table.
IdentifierKeys(bc) ==
  {<<getStringTableEntry(bc, i).str, TranslationOf(bc, i)>> : i \in OfKind(bc, KIdentifier)}

\* C6: after a unit with a non-empty string table has been imported, the map
\* has one entry per string; the Identifier and the Predefined entries hold
\* valid SymbolIDs and the String entries the empty SymbolID; the identifier
\* table has grown by Identifier entries of the unit only, so that no String
\* entry reached it.
C6_ImportMapsIdentifiersAndPredefined ==
  /\ \A m \in Interned :
       LET bc == bcProvider[m]
       IN  getStringCount(bc) > 0 =>
             /\ Len(stringIDMap[m]) = getStringCount(bc)
             /\ \A i \in OfKind(bc, KIdentifier) \cup OfKind(bc, KPredefined) :
                  isValid(At(stringIDMap[m], i))
             /\ \A i \in OfKind(bc, KString) : At(stringIDMap[m], i) = EmptyID
  /\ \A bc \in TopLevelBytecode, persistent \in BOOLEAN :
       getStringCount(bc) > 0 =>
         LET c == create(Cur, Cardinality(Modules(Cur)) + 1, bc, persistent, RETURNED)
             old == identifierTable
             new == c.st.identifierTable
         IN  /\ Len(new) >= Len(old)
             /\ SubSeq(new, 1, Len(old)) = old
             /\ \A k \in (Len(old) + 1) .. Len(new) :
                  <<new[k].str, new[k].hash>> \in IdentifierKeys(bc)
             /\ c.st.faults = faults

\* A unit with entries of the three kinds has been imported, and one of its
\* identifiers is an entry the import added to the table.
C6_Witness ==
  \E m \in Interned :
    /\ OfKind(bcProvider[m], KString) # {}
    /\ OfKind(bcProvider[m], KPredefined) # {}
    /\ \E i \in OfKind(bcProvider[m], KIdentifier) :
         At(stringIDMap[m], i) >= NumPredefined

\* C7: an Identifier entry is mapped to the SymbolID the identifier table
\* holds for its content and hash, and a Predefined entry to the SymbolID
\* made of its raw translation value; mapping a Predefined entry leaves the
\* identifier table as it is.
C7_IdentifierRegisteredPredefinedFixed ==
  \A m \in Interned :
    LET bc == bcProvider[m]
    IN  /\ \A i \in OfKind(bc, KIdentifier) :
             /\ At(stringIDMap[m], i) =
                  lookupString(identifierTable, getStringTableEntry(bc, i).str,
                               TranslationOf(bc, i))
             /\ At(stringIDMap[m], i) # InvalidID
        /\ \A i \in OfKind(bc, KPredefined) :
             LET r == mapPredefined(Cur, m, i, TranslationOf(bc, i))
             IN  /\ At(stringIDMap[m], i) = unsafeCreate(TranslationOf(bc, i))
                 /\ isPredefined(At(stringIDMap[m], i))
                 /\ r.ret = unsafeCreate(TranslationOf(bc, i))
                 /\ r.st.identifierTable = identifierTable
                 /\ At(r.st.stringIDMap[m], i) = r.ret

\* A unit with an Identifier and a Predefined entry has been imported; the
\* identifier was registered by the import.
C7_Witness ==
  \E m \in Interned :
    /\ \E i \in OfKind(bcProvider[m], KPredefined) :
         At(stringIDMap[m], i) = 1
    /\ \E i \in OfKind(bcProvider[m], KIdentifier) :
         /\ At(stringIDMap[m], i) >= NumPredefined
         /\ identifierTable[At(stringIDMap[m], i) + 1].str =
              getStringTableEntry(bcProvider[m], i).str

\* C8: Identifier entries of two modules with the same content and the same
\* hash are mapped to the same SymbolID, in whatever order the modules were
\* loaded.
C8_SameContentSameSymbol ==
  \A m1, m2 \in Interned :
    \A s1 \in OfKind(bcProvider[m1], KIdentifier), s2 \in OfKind(bcProvider[m2], KIdentifier) :
      (/\ getStringTableEntry(bcProvider[m1], s1).str =
            getStringTableEntry(bcProvider[m2], s2).str
       /\ TranslationOf(bcProvider[m1], s1) = TranslationOf(bcProvider[m2], s2))
      => At(stringIDMap[m1], s1) = At(stringIDMap[m2], s2)

\* Two different units with the same identifier at different indices have
\* been loaded, the one with the higher index first.
C8_Witness ==
  \E m1, m2 \in Interned :
    /\ m1 < m2
    /\ bcProvider[m1] # bcProvider[m2]
    /\ \E s1 \in OfKind(bcProvider[m1], KIdentifier), s2 \in OfKind(bcProvider[m2], KIdentifier) :
         /\ s1 > s2
         /\ getStringTableEntry(bcProvider[m1], s1) = getStringTableEntry(bcProvider[m2], s2)
         /\ TranslationOf(bcProvider[m1], s1) = TranslationOf(bcProvider[m2], s2)
         /\ At(stringIDMap[m1], s1) = At(stringIDMap[m2], s2)

\* C9: a module whose unit has an empty string table has a map of exactly one
\* entry, at index 0: the SymbolID the identifier table holds for the empty
\* string.
C9_EmptyTableMapsEmptyString ==
  \A m \in Interned :
    getStringCount(bcProvider[m]) = 0 =>
      /\ Len(stringIDMap[m]) = 1
      /\ isValid(At(stringIDMap[m], 0))
      /\ At(stringIDMap[m], 0) = lookupString(identifierTable, StrEmpty, hashString(StrEmpty))
      /\ identifierTable[At(stringIDMap[m], 0) + 1].str = StrEmpty

\* Two units with empty string tables have been loaded after a unit with
\* strings: the second finds the empty string the first registered.
C9_Witness ==
  \E m1, m2 \in Interned :
    /\ m1 # m2
    /\ getStringCount(bcProvider[m1]) = 0
    /\ getStringCount(bcProvider[m2]) = 0
    /\ Len(identifierTable) > NumPredefined + 1

-----------------------------------------------------------------------------
(* Properties of the literal cache (checked under SpecCache). *)

\* C10: within the cacheable range, caching a hidden class at a buffer index
\* and then looking up that index with the class's number of properties
\* returns the class, and every other lookup answers as before; outside the
\* range caching changes nothing and a lookup is a miss, whatever has been
\* cached before.
C10_LiteralCacheRoundTrip ==
  /\ \A m \in runtimeModules, k \in BufferIndices, clazz \in HiddenClasses :
       LET n == getNumProperties(clazz)
           S1 == tryCacheLiteralHiddenClass(Cur, m, k, clazz)
       IN  IF canGenerateLiteralHiddenClassCacheKey(k, n)
           THEN /\ findCachedLiteralHiddenClass(S1, m, k, n) = clazz
                /\ \A m2 \in runtimeModules, k2 \in BufferIndices, n2 \in LiteralCounts :
                     <<m2, k2, n2>> # <<m, k, n>> =>
                       findCachedLiteralHiddenClass(S1, m2, k2, n2) =
                         findCachedLiteralHiddenClass(Cur, m2, k2, n2)
           ELSE S1 = Cur
  /\ \A m \in runtimeModules, k \in BufferIndices, n \in LiteralCounts :
       ~canGenerateLiteralHiddenClassCacheKey(k, n) =>
         findCachedLiteralHiddenClass(Cur, m, k, n) = None

\* A module has cached classes at (0, 1) and (1, 2): the keys that the pairs
\* outside the range would wrap around to are in the cache.
C10_Witness ==
  \E m \in runtimeModules :
    /\ findCachedLiteralHiddenClass(Cur, m, 0, 1) = "H1b"
    /\ findCachedLiteralHiddenClass(Cur, m, 1, 2) = "H2"
    /\ getLiteralHiddenClassCacheHashKey(KeyIndexLimit, 1) \in
         DOMAIN objectLiteralHiddenClasses[m]

-----------------------------------------------------------------------------
(* Properties of the CJS import (C11 under SpecLoad, C12 under Spec). *)

\* C11: when the import of the CJS module table fails, create returns
\* EXCEPTION and leaves the module as a successful create would, except for
\* the domain's table: registered with the runtime and with its domain, its
\* identifiers interned, its function map sized.  A module whose import
\* failed stays like that.
C11_FailedImportIsNotRolledBack ==
  /\ \A bc \in TopLevelBytecode \ {NoProvider}, persistent \in BOOLEAN :
       LET d == Cardinality(Modules(Cur)) + 1
           failed == create(Cur, d, bc, persistent, EXCEPTION)
           ok == create(Cur, d, bc, persistent, RETURNED)
           m == ok.ret
       IN  /\ failed.ret = EXCEPTION
           /\ m \notin Modules(Cur)
           /\ m \in failed.st.runtimeModules
           /\ failed.st.domainOf[m] = d
           /\ failed.st.bcProvider[m] = bc
           /\ failed.st.stringIDMap[m] = ok.st.stringIDMap[m]
           /\ failed.st.identifierTable = ok.st.identifierTable
           /\ failed.st.functionMap[m] = [i \in 1 .. getFunctionCount(bc) |-> nullptr]
           /\ m \notin failed.st.cjsModules
           /\ m \in ok.st.cjsModules
  /\ \A m \in Interned \ cjsModules :
       /\ m \in DOMAIN domainOf
       /\ Len(functionMap[m]) = getFunctionCount(bcProvider[m])
       /\ Len(stringIDMap[m]) =
            IF getStringCount(bcProvider[m]) = 0 THEN 1 ELSE getStringCount(bcProvider[m])
       /\ \A i \in OfKind(bcProvider[m], KIdentifier) : isValid(At(stringIDMap[m], i))

\* The first module was created with a unit whose CJS import failed, and a
\* second module has been created after it: the first is still registered,
\* with its identifier interned.
C11_Witness ==
  /\ 1 \in Interned \ cjsModules
  /\ OfKind(bcProvider[1], KIdentifier) # {}
  /\ \A i \in OfKind(bcProvider[1], KIdentifier) : At(stringIDMap[1], i) >= NumPredefined
  /\ Len(functionMap[1]) = 3
  /\ 2 \in runtimeModules

\* The positions of the calls of Domain::importCJSModuleTable in a list of calls.
ImportCalls(calls) ==
  {k \in 1 .. Len(calls) : calls[k].call = "Domain::importCJSModuleTable"}

\* C12: create with a unit calls Domain::importCJSModuleTable exactly once,
\* as the last thing it does: after the module is registered with the runtime
\* and with the domain, with the module's identifiers interned and its
\* function map sized as create leaves them.  create without a unit and
\* initializeLazyMayAllocate do not call it, so no lazy child is in a
\* domain's CJS table.
C12_ImportOnceAfterInitialization ==
  /\ \A bc \in TopLevelBytecode, persistent \in BOOLEAN, cjs \in CJSStatus :
       LET c == create(Cur, Cardinality(Modules(Cur)) + 1, bc, persistent, cjs)
           m == Cardinality(Modules(Cur)) + 1
           calls == c.st.calls
       IN  IF bc = NoProvider
           THEN /\ ImportCalls(calls) = {}
                /\ c.ret = m
           ELSE /\ [k \in 1 .. Len(calls) |-> calls[k].call] =
                     <<"Runtime::addRuntimeModule", "Domain::addRuntimeModule",
                       "Domain::importCJSModuleTable">>
                /\ \A k \in 1 .. 3 : calls[k].module = m
                /\ calls[3].registered
                /\ calls[3].inDomain
                /\ calls[3].stringIDMap = c.st.stringIDMap[m]
                /\ calls[3].functionMap = c.st.functionMap[m]
                /\ Len(calls[3].functionMap) = getFunctionCount(bc)
                /\ \A i \in OfKind(bc, KIdentifier) \cup OfKind(bc, KPredefined) :
                     isValid(At(calls[3].stringIDMap, i))
                /\ c.ret = IF cjs = RETURNED THEN m ELSE EXCEPTION
  /\ \A c \in runtimeModules :
       bcProvider[c].kind = "lazy" =>
         LET S2 == initializeLazyMayAllocate(Cur, c, compiledUnit(bcProvider[c]))
         IN  /\ ImportCalls(S2.calls) = {}
             /\ S2.cjsModules = cjsModules
  /\ cjsModules \subseteq TopLevel(Cur)

\* A unit was loaded and its CJS table imported; a lazy child of the module
\* has compiled its function and is in no CJS table.
C12_Witness ==
  \E c \in runtimeModules :
    /\ lazyParent[c] # NoParent
    /\ bcProvider[c].kind = "src"
    /\ c \notin cjsModules
    /\ lazyParent[c][1] \in cjsModules

-----------------------------------------------------------------------------
(* Properties of the roots (C13, C16, C17 under SpecGC, C14 under SpecLoad, *)
(* C15 under Spec).                                                         *)

\* The hidden classes in the literal cache of module m.
CachedValues(S, m) ==
  {S.objectLiteralHiddenClasses[m][key] : key \in DOMAIN S.objectLiteralHiddenClasses[m]}
    \ {NoClass}

\* The lookups the interpreter makes at buffer index 0.
Lookups == {1, 2}

\* C13 as claimed: markRoots reports every cached hidden class as a strong
\* root, with and without markLongLived, and a cached class is still found
\* after any collection.
C13_Original ==
  /\ \A m \in runtimeModules, markLongLived \in BOOLEAN :
       CachedValues(Cur, m) \subseteq markRoots(Cur, m, markLongLived).pointers
  /\ \A reachable \in SUBSET CachedClasses, markLongLived \in BOOLEAN :
       \A m \in runtimeModules, n \in Lookups :
         findCachedLiteralHiddenClass(collect(Cur, reachable, markLongLived), m, 0, n) =
           findCachedLiteralHiddenClass(Cur, m, 0, n)

\* C13 as amended: what markRoots reports as strong roots on every pass,
\* with and without markLongLived, are the values of templateMap_, and no
\* value of the literal cache; a collection keeps the template objects, and
\* a cached hidden class is found after it exactly when the class is
\* reachable from elsewhere.
C13_Amended ==
  /\ \A m \in runtimeModules, markLongLived \in BOOLEAN :
       /\ markRoots(Cur, m, markLongLived).pointers =
            {templateMap[m][id] : id \in DOMAIN templateMap[m]}
       /\ markRoots(Cur, m, markLongLived).pointers \cap CachedValues(Cur, m) = {}
  /\ \A reachable \in SUBSET CachedClasses, markLongLived \in BOOLEAN :
       LET S1 == collect(Cur, reachable, markLongLived)
       IN  /\ S1.templateMap = templateMap
           /\ \A m \in runtimeModules, n \in Lookups :
                findCachedLiteralHiddenClass(S1, m, 0, n) =
                  IF findCachedLiteralHiddenClass(Cur, m, 0, n) \in reachable
                  THEN findCachedLiteralHiddenClass(Cur, m, 0, n)
                  ELSE None

\* A module holds a template object and a cached hidden class, and a slot of
\* its literal cache has been cleared by a collection.
C13_Witness ==
  \E m \in runtimeModules :
    /\ DOMAIN templateMap[m] # {}
    /\ CachedValues(Cur, m) # {}
    /\ \E key \in DOMAIN objectLiteralHiddenClasses[m] :
         objectLiteralHiddenClasses[m][key] = NoClass

\* C14: with markLongLived, markRoots reports each valid entry of
\* stringIDMap once, in the order of the map, and no entry that is not
\* valid; without markLongLived it reports no symbol.
C14_SymbolsOnlyWhenLongLived ==
  \A m \in runtimeModules :
    LET symbols == markRoots(Cur, m, TRUE).symbols
        valid == {i \in Indices(stringIDMap[m]) : At(stringIDMap[m], i) < EmptyID}
    IN  /\ Len(symbols) = Cardinality(valid)
        /\ {symbols[k] : k \in 1 .. Len(symbols)} = {At(stringIDMap[m], i) : i \in valid}
        /\ \A k \in 1 .. Len(symbols) : symbols[k] \notin {EmptyID, InvalidID}
        /\ markRoots(Cur, m, FALSE).symbols = <<>>

\* A module has interned identifiers and left plain strings empty, next to a
\* module that has no unit and so no symbols.
C14_Witness ==
  /\ \E m \in Interned :
       /\ \E i \in Indices(stringIDMap[m]) : At(stringIDMap[m], i) = EmptyID
       /\ \E i \in Indices(stringIDMap[m]) : At(stringIDMap[m], i) >= NumPredefined /\
                                              At(stringIDMap[m], i) < EmptyID
       /\ \E i \in Indices(stringIDMap[m]) : At(stringIDMap[m], i) < NumPredefined
  /\ \E m \in runtimeModules : stringIDMap[m] = <<>>

\* How often markWeakRoots of module m asks a CodeBlock to mark its cached
\* hidden classes.
TimesAsked(m, block, garbage) ==
  LET asked == markWeakRoots(Cur, m, {}, garbage).ret
  IN  Cardinality({k \in 1 .. Len(asked) : asked[k] = block})

\* C15: markWeakRoots of a module asks exactly the CodeBlocks of its function
\* map that it owns, each once per slot, and reads no deleted CodeBlock; so
\* in a pass over all registered modules a live CodeBlock is asked once, by
\* its owner, and never through a module that borrows it.
C15_WeakRootsMarkOwnCodeBlocksOnly ==
  \A garbage \in BOOLEAN :
    /\ \A m \in runtimeModules :
         LET r == markWeakRoots(Cur, m, {}, garbage)
             own == {i \in Residents(functionMap[m]) : OwnerOf(Cur, At(functionMap[m], i)) = m}
         IN  /\ {r.ret[k] : k \in 1 .. Len(r.ret)} = {At(functionMap[m], i) : i \in own}
             /\ Len(r.ret) = Cardinality(own)
             /\ r.st.faults = faults
             /\ r.st.functionMap = functionMap
    /\ \A block \in DOMAIN codeBlocks :
         codeBlocks[block].deletes = 0 =>
           \A m \in runtimeModules :
             TimesAsked(m, block, garbage) = IF OwnerOf(Cur, block) = m THEN 1 ELSE 0

\* A running module holds a CodeBlock of its own and borrows the CodeBlock of
\* a lazy child that has compiled it and holds it at index 1.
C15_Witness ==
  /\ phase = "running"
  /\ \E m \in runtimeModules : \E i, j \in Residents(functionMap[m]) :
       LET c == OwnerOf(Cur, At(functionMap[m], j))
       IN  /\ OwnerOf(Cur, At(functionMap[m], i)) = m
           /\ c \in runtimeModules \ {m}
           /\ bcProvider[c].kind = "src"
           /\ At(functionMap[c], 1) = At(functionMap[m], j)

\* C16: a collection in which a cached hidden class is not reachable from
\* elsewhere sets its slot to null; after any collection a lookup returns a
\* class that survived or a miss, the cleared key misses, and caching a
\* class for the cleared key again passes the assertion and is found.
C16_CacheSlotIsWeak ==
  \A reachable \in SUBSET CachedClasses, markLongLived \in BOOLEAN :
    LET S1 == collect(Cur, reachable, markLongLived)
    IN  \A m \in runtimeModules, n \in Lookups :
          LET cached == findCachedLiteralHiddenClass(Cur, m, 0, n)
              key == getLiteralHiddenClassCacheHashKey(0, n)
          IN  /\ findCachedLiteralHiddenClass(S1, m, 0, n) \in reachable \cup {None}
              /\ (cached # None /\ cached \notin reachable) =>
                   /\ S1.objectLiteralHiddenClasses[m][key] = NoClass
                   /\ findCachedLiteralHiddenClass(S1, m, 0, n) = None
                   /\ \A clazz \in CachedClasses :
                        getNumProperties(clazz) = n =>
                          LET S2 == tryCacheLiteralHiddenClass(S1, m, 0, clazz)
                          IN  /\ S2.faults = faults
                              /\ findCachedLiteralHiddenClass(S2, m, 0, n) = clazz

\* Without a failed assertion, a module has one slot of its literal cache
\* cleared by a collection and another that still holds its class, and the
\* other module has cached a class again.
C16_Witness ==
  /\ faults = {}
  /\ \E m \in runtimeModules :
       /\ objectLiteralHiddenClasses[m] =
            (getLiteralHiddenClassCacheHashKey(0, 1) :> NoClass) @@
            (getLiteralHiddenClassCacheHashKey(0, 2) :> "H2")
       /\ \E m2 \in runtimeModules \ {m} : "H1b" \in CachedValues(Cur, m2)

AssertNotCached == "assert !findCachedLiteralHiddenClass().hasValue()"

\* tryCacheLiteralHiddenClass on a key of module m fails its assertion exactly
\* when the key holds a class.
FailsWhenCached(m, clazz) ==
  LET cached == findCachedLiteralHiddenClass(Cur, m, 0, getNumProperties(clazz))
      S1 == tryCacheLiteralHiddenClass(Cur, m, 0, clazz)
  IN  IF cached # None
      THEN AssertNotCached \in S1.faults
      ELSE S1.faults = faults /\ findCachedLiteralHiddenClass(S1, m, 0, getNumProperties(clazz)) = clazz

\* A step without a failed assertion leaves a slot that holds a class as it
\* is, or nulls it.
NeverOverwritten ==
  faults' = {} =>
    \A m \in runtimeModules : \A key \in DOMAIN objectLiteralHiddenClasses[m] :
      objectLiteralHiddenClasses[m][key] # NoClass =>
        objectLiteralHiddenClasses'[m][key] \in {objectLiteralHiddenClasses[m][key], NoClass}

\* C17: tryCacheLiteralHiddenClass for a key in range that holds a class
\* fails the assertion, and for a key that misses it does not; so as long as
\* no assertion has failed, no step replaces a cached class by another: a
\* slot is written only when it is absent or has been cleared.
C17_RecachingFailsAssertion ==
  /\ [](\A m \in runtimeModules, clazz \in CachedClasses : FailsWhenCached(m, clazz))
  /\ [][NeverOverwritten]_vars

\* The assertion has failed: a class was cached for a key that held one, and
\* the slot now holds the other class of the same key.
C17_Witness ==
  /\ AssertNotCached \in faults
  /\ \E m \in runtimeModules : findCachedLiteralHiddenClass(Cur, m, 0, 1) = "H1b"

-----------------------------------------------------------------------------
(* Properties of lazy compilation (C18, C19, C20 under Spec). *)

\* The lazy children that have compiled their function.
Compiled(S) ==
  {c \in S.runtimeModules : S.lazyParent[c] # NoParent /\ S.bcProvider[c].kind = "src"}

\* C18: initializeLazyMayAllocate on a lazy child moves its CodeBlock from
\* slot 0 to the slot of the compiled unit's global function index: the map
\* is as long as the unit has functions, that slot holds the same CodeBlock,
\* every other slot (slot 0 too, unless the index is 0) is null, no CodeBlock
\* is made or deleted, no assertion fails, and the parent's slot holds the
\* same CodeBlock as before; a child that has compiled keeps the CodeBlock
\* in that slot.
C18_CompileMovesRecordToGlobalIndex ==
  /\ \A c \in runtimeModules :
       bcProvider[c].kind = "lazy" =>
         LET block == At(functionMap[c], 0)
             parent == lazyParent[c][1]
             S2 == initializeLazyMayAllocate(Cur, c, compiledUnit(bcProvider[c]))
             g == getGlobalFunctionIndex(S2.bcProvider[c])
         IN  /\ block # nullptr
             /\ S2.bcProvider[c] = compiledUnit(bcProvider[c])
             /\ Len(S2.functionMap[c]) = getFunctionCount(S2.bcProvider[c])
             /\ g \in Indices(S2.functionMap[c])
             /\ At(S2.functionMap[c], g) = block
             /\ \A i \in Indices(S2.functionMap[c]) \ {g} : At(S2.functionMap[c], i) = nullptr
             /\ S2.codeBlocks = codeBlocks
             /\ S2.faults = faults
             /\ S2.functionMap[parent] = functionMap[parent]
             /\ phase = "running" => At(S2.functionMap[parent], lazyParent[c][2]) = block
  /\ \A c \in Compiled(Cur) :
       LET g == getGlobalFunctionIndex(bcProvider[c])
       IN  /\ Len(functionMap[c]) = getFunctionCount(bcProvider[c])
           /\ OwnerOf(Cur, At(functionMap[c], g)) = c
           /\ phase = "running" =>
                At(functionMap[lazyParent[c][1]], lazyParent[c][2]) = At(functionMap[c], g)

\* A lazy child has compiled function 1 of its parent: its map of three
\* slots holds the CodeBlock in slot 1 and nothing in slot 0, and the parent
\* holds the same CodeBlock; a child of the child has not compiled yet.
C18_Witness ==
  \E c \in Compiled(Cur) :
    /\ getGlobalFunctionIndex(bcProvider[c]) = 1
    /\ Len(functionMap[c]) = 3
    /\ At(functionMap[c], 0) = nullptr
    /\ At(functionMap[c], 1) = At(functionMap[lazyParent[c][1]], lazyParent[c][2])
    /\ At(functionMap[c], 1) # nullptr
    /\ \E d \in runtimeModules : lazyParent[d] = <<c, 2>> /\ bcProvider[d].kind = "lazy"

\* The resident slots of the initialized modules of a running runtime.
ResidentSlots ==
  {<<m, i>> : m \in {k \in runtimeModules : phase = "running" /\ bcProvider[k].kind = "src"},
              i \in 0 .. 2} \cap
  {<<m, i>> \in runtimeModules \X (0 .. 2) : i \in Residents(functionMap[m])}

\* C19 as claimed: getCodeBlockSlowPath on a resident slot fails an assertion
\* and makes no second CodeBlock and no second lazy child.
C19_Original ==
  \A slot \in ResidentSlots :
    LET r == getCodeBlockSlowPath(Cur, slot[1], slot[2])
    IN  /\ r.st.faults # faults
        /\ DOMAIN r.st.codeBlocks = DOMAIN codeBlocks
        /\ Modules(r.st) = Modules(Cur)

\* C19 as amended: getCodeBlockSlowPath carries no assertion.  On a resident
\* slot it fails nothing, makes a second CodeBlock for the index (with a
\* second lazy child when the function is lazy) and stores it over the
\* resident one, which stays allocated.  The one assertion on an occupied
\* slot is the one of initializeLazyMayAllocate on the slot it moves to, and
\* it never fails; as the slow path is entered for empty slots only, no
\* index of a module gets two lazy children.
C19_Amended ==
  /\ \A slot \in ResidentSlots :
       LET m == slot[1]
           i == slot[2]
           old == At(functionMap[m], i)
           r == getCodeBlockSlowPath(Cur, m, i)
           madeModules == Modules(r.st) \ Modules(Cur)
       IN  /\ r.st.faults = faults
           /\ r.ret \notin DOMAIN codeBlocks
           /\ DOMAIN r.st.codeBlocks = DOMAIN codeBlocks \cup {r.ret}
           /\ At(r.st.functionMap[m], i) = r.ret
           /\ r.st.codeBlocks[old] = codeBlocks[old]
           /\ IF isFunctionLazy(bcProvider[m], i)
              THEN /\ Cardinality(madeModules) = 1
                   /\ OwnerOf(r.st, r.ret) \in madeModules
                   /\ Cardinality({c \in r.st.runtimeModules : r.st.lazyParent[c] = <<m, i>>}) = 2
              ELSE /\ madeModules = {}
                   /\ OwnerOf(r.st, r.ret) = m
  /\ "assert !functionMap_[getGlobalFunctionIndex()]" \notin faults
  /\ \A m \in runtimeModules, i \in 0 .. 2 :
       Cardinality({c \in runtimeModules : lazyParent[c] = <<m, i>>}) <= 1

\* Every function of a unit of three has been materialized, the lazy one
\* among them, and the runtime is running.
C19_Witness ==
  /\ phase = "running"
  /\ \E m \in runtimeModules :
       /\ ThreeWithLazyOne(bcProvider[m])
       /\ Residents(functionMap[m]) = {0, 1, 2}
       /\ <<m, 1>> \in ResidentSlots

\* The lazy children whose CodeBlock their parent's slot refers to.
Folded(S) ==
  {c \in Modules(S) :
     /\ S.lazyParent[c] # NoParent
     /\ S.lazyParent[c][1] \in S.runtimeModules
     /\ At(S.functionMap[S.lazyParent[c][1]], S.lazyParent[c][2]) # nullptr
     /\ OwnerOf(S, At(S.functionMap[S.lazyParent[c][1]], S.lazyParent[c][2])) = c}

\* C20 as claimed: once a lazy child has compiled the CodeBlock its parent's
\* slot refers to, the child is no longer registered with the runtime.
C20_Original ==
  /\ \A c \in runtimeModules :
       bcProvider[c].kind = "lazy" =>
         c \notin initializeLazyMayAllocate(Cur, c, compiledUnit(bcProvider[c])).runtimeModules
  /\ \A c \in Folded(Cur) : bcProvider[c].kind # "lazy" => c \notin runtimeModules

\* C20 as amended: a lazy child is not discarded when it compiles.
\* initializeLazyMayAllocate leaves the runtime's list of modules and the
\* CodeBlocks as they are, and the child stays the owner of the CodeBlock
\* in its parent's slot; destroying the child then would delete the
\* CodeBlock under the parent's slot.  While the runtime runs no module
\* leaves its list, and every child whose CodeBlock a slot of its parent
\* refers to is registered and its CodeBlock is not deleted, at shutdown too
\* (the parent's slot is cleared before the child is destroyed).
C20_Amended ==
  /\ \A c \in runtimeModules :
       bcProvider[c].kind = "lazy" =>
         LET block == At(functionMap[c], 0)
             parent == lazyParent[c][1]
             S2 == initializeLazyMayAllocate(Cur, c, compiledUnit(bcProvider[c]))
             S3 == RuntimeModuleDtor(S2, c, FALSE)
         IN  /\ S2.runtimeModules = runtimeModules
             /\ S2.domainOf = domainOf
             /\ S2.codeBlocks = codeBlocks
             /\ OwnerOf(S2, block) = c
             /\ phase = "running" =>
                  /\ At(S3.functionMap[parent], lazyParent[c][2]) = block
                  /\ S3.codeBlocks[block].deletes = 1
  /\ phase = "running" => runtimeModules = Modules(Cur)
  /\ \A c \in Folded(Cur) :
       /\ c \in runtimeModules
       /\ codeBlocks[At(functionMap[lazyParent[c][1]], lazyParent[c][2])].deletes = 0
  /\ \A c \in Compiled(Cur) : phase = "running" => c \in Folded(Cur)

\* A lazy child has compiled function 0 of its parent and is still
\* registered while the runtime runs; the parent holds the child's CodeBlock.
C20_Witness ==
  /\ phase = "running"
  /\ \E c \in Compiled(Cur) \cap Folded(Cur) :
       /\ bcProvider[c] = FromSrc("PC0")
       /\ At(functionMap[c], 0) = At(functionMap[lazyParent[c][1]], lazyParent[c][2])

-----------------------------------------------------------------------------
(* Properties of the names of lazy functions (C21) and of the frame of     *)
(* materialisation (C22), checked under Spec.                              *)

\* The lazy children that have not compiled their function.
NotCompiled == {c \in runtimeModules : bcProvider[c].kind = "lazy"}

\* The string-table entry of the name of the function a lazy child holds.
LazyFunctionName(c) ==
  getStringTableEntry(
    FromSrc(bcProvider[c].name),
    At(Provider(bcProvider[c].name).functionName, bcProvider[c].fn))

\* What the caller's string holds before the call.
OutputStrings == {StrEmpty, StrB}

\* C21: the stringIDMap of a lazy child that has not compiled is one valid
\* symbol, the one its parent maps the function's name to, and getLazyName
\* returns it; getLazyNameString returns true and the name in res when the
\* symbol's string is ASCII, and returns false and leaves res as it was when
\* it is not; neither fails an assertion.
C21_LazyNameOnlyWhenASCII ==
  \A c \in NotCompiled :
    LET id == At(stringIDMap[c], 0)
        parent == lazyParent[c][1]
        nameID == At(Provider(bcProvider[c].name).functionName, bcProvider[c].fn)
    IN  /\ Len(stringIDMap[c]) = 1
        /\ isValid(id)
        /\ bcProvider[c].fn = lazyParent[c][2]
        /\ parent \in runtimeModules =>
             /\ bcProvider[parent] = FromSrc(bcProvider[c].name)
             /\ At(stringIDMap[parent], nameID) = id
        /\ getStringView(Cur, id) = LazyFunctionName(c).str
        /\ getLazyName(Cur, c).ret = id
        /\ getLazyName(Cur, c).st.faults = faults
        /\ \A res \in OutputStrings :
             LET r == getLazyNameString(Cur, c, res)
             IN  /\ r.st.faults = faults
                 /\ r.ret = IF LazyFunctionName(c).isUTF16
                            THEN [ok |-> FALSE, res |-> res]
                            ELSE [ok |-> TRUE, res |-> LazyFunctionName(c).str]

\* A lazy child that has not compiled holds a function whose name is not
\* ASCII, and its parent is running.
C21_Witness ==
  /\ phase = "running"
  /\ \E c \in NotCompiled :
       /\ LazyFunctionName(c).isUTF16
       /\ ~isASCII(getStringView(Cur, At(stringIDMap[c], 0)))
       /\ lazyParent[c][1] \in runtimeModules

\* The empty slots of the initialized modules of a running runtime: where
\* getCodeBlockMayAllocate enters the slow path.
EmptySlots ==
  {slot \in runtimeModules \X (0 .. 2) :
     /\ phase = "running"
     /\ bcProvider[slot[1]].kind = "src"
     /\ slot[2] \in Indices(functionMap[slot[1]])
     /\ At(functionMap[slot[1]], slot[2]) = nullptr}

\* What getCodeBlockSlowPath(m, i) does to the function maps, the literal
\* caches and the modules: slot i of m's map is the CodeBlock returned, a new
\* one; no other slot of a map that existed, and no literal cache, changes;
\* a lazy function adds one child module, registered with the runtime, in
\* the domain of m, with the CodeBlock in its only slot; another function
\* adds no module.
MapsFrame(m, i, r) ==
  LET child == OwnerOf(r.st, r.ret)
  IN  /\ r.st.faults = faults
      /\ DOMAIN r.st.codeBlocks = DOMAIN codeBlocks \cup {r.ret}
      /\ r.ret \notin DOMAIN codeBlocks
      /\ r.st.functionMap[m] = SetAt(functionMap[m], i, r.ret)
      /\ \A k \in Modules(Cur) \ {m} : r.st.functionMap[k] = functionMap[k]
      /\ \A k \in Modules(Cur) :
           r.st.objectLiteralHiddenClasses[k] = objectLiteralHiddenClasses[k]
      /\ IF isFunctionLazy(bcProvider[m], i)
         THEN /\ Modules(r.st) = Modules(Cur) \cup {child}
              /\ child \notin Modules(Cur)
              /\ r.st.runtimeModules = runtimeModules \cup {child}
              /\ r.st.domainOf[child] = domainOf[m]
              /\ r.st.functionMap[child] = <<r.ret>>
              /\ r.st.lazyParent[child] = <<m, i>>
         ELSE /\ Modules(r.st) = Modules(Cur)
              /\ r.st.runtimeModules = runtimeModules
              /\ child = m

\* C22 as claimed: getCodeBlockSlowPath(m, i) writes slot i of m's function
\* map and, for a lazy function, makes one child; the stringIDMap of m is as
\* it was.
C22_Original ==
  \A slot \in EmptySlots :
    LET r == getCodeBlockSlowPath(Cur, slot[1], slot[2])
    IN  /\ MapsFrame(slot[1], slot[2], r)
        /\ r.st.stringIDMap[slot[1]] = stringIDMap[slot[1]]

\* C22 as amended: getCodeBlockSlowPath(m, i) writes slot i of m's function
\* map and, for a lazy function, makes one child.  For a function that is
\* not lazy the stringIDMaps and the identifier table are as they were.  For
\* a lazy function the entry of m's stringIDMap for the function's name is
\* valid afterwards and is the child's one symbol: an entry that was valid
\* is kept, one that was not is filled with the symbol of the name, which
\* the identifier table then holds; every other entry of m's stringIDMap and
\* the stringIDMap of every other module that existed are as they were.
C22_Amended ==
  \A slot \in EmptySlots :
    LET m == slot[1]
        i == slot[2]
        r == getCodeBlockSlowPath(Cur, m, i)
        nameID == At(Provider(bcProvider[m].name).functionName, i)
        name == getStringTableEntry(bcProvider[m], nameID).str
        old == At(stringIDMap[m], nameID)
        new == At(r.st.stringIDMap[m], nameID)
    IN  /\ MapsFrame(m, i, r)
        /\ \A k \in Modules(Cur) \ {m} : r.st.stringIDMap[k] = stringIDMap[k]
        /\ IF isFunctionLazy(bcProvider[m], i)
           THEN /\ r.st.stringIDMap[m] = SetAt(stringIDMap[m], nameID, new)
                /\ isValid(new)
                /\ isValid(old) => new = old /\ r.st.identifierTable = identifierTable
                /\ getStringView(r.st, new) = name
                /\ SubSeq(r.st.identifierTable, 1, Len(identifierTable)) = identifierTable
                /\ r.st.stringIDMap[OwnerOf(r.st, r.ret)] = <<new>>
           ELSE /\ r.st.stringIDMap[m] = stringIDMap[m]
                /\ r.st.identifierTable = identifierTable

\* A module of a unit whose lazy function 1 is named by a string that is not
\* an identifier has materialized functions 0 and 1: the entry of the name
\* in its stringIDMap has been filled, the entry of the other string that
\* is not an identifier has not.
C22_Witness ==
  /\ phase = "running"
  /\ \E m \in runtimeModules :
       /\ bcProvider[m] = FromSrc("PA")
       /\ {0, 1} \subseteq Residents(functionMap[m])
       /\ isValid(At(stringIDMap[m], 0))
       /\ ~isValid(At(stringIDMap[m], 1))
       /\ stringIDMap[OwnerOf(Cur, At(functionMap[m], 1))] = <<At(stringIDMap[m], 0)>>

====
